---- MODULE Spec2Model ----
(***************************************************************************)
(* The Thiccc workout-tracking core: the Crux event reducer of             *)
(* applications/thiccc/app/shared/src/app (update/*.rs, model.rs,          *)
(* mod.rs) with the part of the domain model (models.rs, id.rs) its        *)
(* handlers touch.  One action per event variant; the effect requests a    *)
(* handler returns are recorded in `effects`.                              *)
(***************************************************************************)
EXTENDS Integers, Sequences, FiniteSets, TLC

VARIABLES
    current_workout,        \* Model::current_workout      : Option<Workout>
    workout_timer_seconds,  \* Model::workout_timer_seconds : i32
    timer_running,          \* Model::timer_running        : bool
    workout_history,        \* Model::workout_history      : Vec<Workout>
    history_detail_view,    \* Model::history_detail_view  : Option<Workout>
    selected_tab,           \* Model::selected_tab         : Tab
    navigation_stack,       \* Model::navigation_stack     : Vec<NavigationDestination>
    showing_add_exercise,   \* Model::showing_add_exercise : bool
    showing_import,         \* Model::showing_import       : bool
    is_loading,             \* Model::is_loading           : bool
    error_message,          \* Model::error_message        : Option<String>
    showing_plate_calculator, \* Model::showing_plate_calculator : bool
    plate_calculation,      \* Model::plate_calculation    : Option<PlateCalculation>
    view,                   \* the ViewModel the last view() call returned
    completed,              \* what Exercise::is_completed last returned
    routed,                 \* where the dispatcher last sent an event
    db,                     \* the committed tables of the SQLite file
    tx,                     \* the tables inside the open transaction, if any
    saving,                 \* the save_workout call in progress, if any
    save_result,            \* what the last save_workout call returned
    loaded,                 \* what the last load_workout call returned
    saved,                  \* history variable: the workouts whose save committed
    thread_pc,              \* where each host thread is in the entry points
    core_lock,              \* the thread holding the CORE_STATE Mutex, if any
    pasted,                 \* the text in the host's import field
    effects,                \* the Command returned by the last update() call
    lastEvent,              \* the Event the last update() call handled
    panicked,               \* the reducer aborted inside a handler
    session                 \* history variable: timer ticks since StartWorkout

vars == <<current_workout, workout_timer_seconds, timer_running,
          workout_history, history_detail_view, selected_tab,
          navigation_stack, showing_add_exercise, showing_import, is_loading,
          error_message, showing_plate_calculator, plate_calculation,
          view, completed, routed, db, tx, saving, save_result, loaded, saved,
          thread_pc, core_lock, pasted, effects, lastEvent, panicked,
          session>>

(* history and navigation state *)
nav == <<history_detail_view, selected_tab, navigation_stack>>

(* plate calculator state *)
calculator == <<showing_plate_calculator, plate_calculation>>

(* results of the model's pure functions *)
observed == <<view, completed, routed>>

(* the SQLite layer *)
database == <<db, tx, saving, save_result, loaded, saved>>

(* the host: its threads at the boundary and its import field *)
boundary == <<thread_pc, core_lock, pasted>>

(* the Crux core: its model, its last command and what was read off it *)
core == <<current_workout, workout_timer_seconds, timer_running,
          workout_history, nav, showing_add_exercise, showing_import,
          is_loading, error_message, calculator, observed, effects,
          lastEvent, panicked, session>>

----------------------------------------------------------------------------
(* Bounds of the finite model *)

MaxIds == 4         \* generated identifiers the model may hold at one time
MaxExercises == 2   \* exercises AddExercise may put into one workout
MaxSets == 2        \* sets AddSet may put into one exercise
MaxFinished == 1    \* workouts finished by this run that history may hold
MaxTicks == 2       \* ticks explored from a counter of zero
MaxNav == 2         \* destinations ViewHistoryItem may push onto the stack
MaxThreads == 3     \* host threads that call the boundary entry points

----------------------------------------------------------------------------
(* Option<T>: None is the empty sequence, Some(x) the one-element sequence *)

None == <<>>
Some(x) == <<x>>
IsSome(o) == o # <<>>
Unwrap(o) == o[1]

(* i32 *)
I32Max == 2147483647
I32Min == -I32Max - 1

(* An i64 number of seconds x is written [q, r] with x = q * 2^31 + r and  *)
(* 0 <= r < 2^31.                                                          *)
I64(q, r) == [q |-> q, r |-> r]

(* i64::max(self, 0) *)
Max0(x) == IF x.q < 0 THEN I64(0, 0) ELSE x

(* `x as i32` on an i64 keeps the low 32 bits: r and, as the sign bit, the *)
(* lowest bit of q.                                                        *)
AsI32(x) == IF x.q % 2 = 0 THEN x.r ELSE I32Min + x.r

----------------------------------------------------------------------------
(* Identifiers (id.rs).  An Id wraps a string; Id::new() wraps a fresh     *)
(* UUID, Id::from_string accepts exactly the strings Uuid::parse_str       *)
(* accepts, and deserialization accepts any string.                        *)

UuidPool == <<"u01", "u02", "u03", "u04", "u05", "u06", "u07", "u08">>
ExtUuid == "e01"             \* a well-formed UUID the core did not generate
BadId == "not-a-valid-uuid"  \* a string Uuid::parse_str rejects

IsUuid(s) == s = ExtUuid \/ \E i \in 1..Len(UuidPool) : UuidPool[i] = s

(* Id::new(): a version-4 UUID, distinct from every identifier in use.  The *)
(* k-th identifier generated in one handler is the k-th pool entry that    *)
(* `used` does not contain.                                                *)
RECURSIVE NthUnused(_, _, _)
NthUnused(used, k, i) ==
    IF i > MaxIds THEN 0
    ELSE IF UuidPool[i] \in used THEN NthUnused(used, k, i + 1)
    ELSE IF k = 1 THEN i
    ELSE NthUnused(used, k - 1, i + 1)

CanIdNew(used, k) == NthUnused(used, k, 1) # 0
IdNew(used, k) == UuidPool[NthUnused(used, k, 1)]

(* Id::from_string: Ok(Id(s)) or Err *)
IdFromStringUnchecked(s) == Some(s)
IdFromString(s) == IF IsUuid(s) THEN Some(s) ELSE None

----------------------------------------------------------------------------
(* Domain model (models.rs) *)

Now == "now"   \* the value of Utc::now()

(* SetActual: the values performed; SetActual::default() holds none *)
SetActualNew(weight, reps) == [weight |-> weight, reps |-> reps]
SetActualDefault == SetActualNew(None, None)

ExerciseSetNew(id, exercise_id, workout_id, set_index) ==
    [id |-> id, exercise_id |-> exercise_id, workout_id |-> workout_id,
     set_index |-> set_index, is_completed |-> FALSE,
     actual |-> SetActualDefault]

ExerciseFromGlobal(id, workout_id) ==
    [id |-> id, workout_id |-> workout_id, sets |-> <<>>]

WorkoutNew(id) ==
    [id |-> id, duration |-> None, end_timestamp |-> None, exercises |-> <<>>]

WorkoutFinish(w, elapsed_seconds) ==
    [w EXCEPT !.end_timestamp = Some(Now), !.duration = Some(elapsed_seconds)]

ExerciseAddSetOfItself(e, id) ==
    [e EXCEPT !.sets =
        Append(e.sets, ExerciseSetNew(id, id, e.workout_id, Len(e.sets)))]
ExerciseAddSet(e, id) ==
    [e EXCEPT !.sets =
        Append(e.sets, ExerciseSetNew(id, e.id, e.workout_id, Len(e.sets)))]

(* the identifiers of entities a workout holds *)
WorkoutIds(w) ==
    {w.id} \cup {w.exercises[i].id : i \in 1..Len(w.exercises)}
           \cup UNION {{w.exercises[i].sets[j].id :
                            j \in 1..Len(w.exercises[i].sets)} :
                        i \in 1..Len(w.exercises)}

(* the identifiers of entities the model holds *)
UsedIds ==
    (IF current_workout = <<>> THEN {} ELSE WorkoutIds(current_workout[1]))
    \cup UNION {WorkoutIds(workout_history[i]) :
                   i \in 1..Len(workout_history)}

----------------------------------------------------------------------------
(* Error texts.  A message is its format string and the values filled in. *)

Msg(text, args) == [text |-> text, args |-> args]

WIP_MSG ==
    Msg("A workout is already in progress. Please finish or discard it first.",
        <<>>)

----------------------------------------------------------------------------
(* Effect requests (operations.rs, Command::request_from_shell, render) *)

Req(cap, op, payload) == [cap |-> cap, op |-> op, payload |-> payload]

Render == Req("Render", "Render", None)
TimerStart == Req("Timer", "Start", None)
TimerStop == Req("Timer", "Stop", None)
StorageDeleteCurrentWorkout == Req("Storage", "DeleteCurrentWorkout", None)
StorageLoadCurrentWorkout == Req("Storage", "LoadCurrentWorkout", None)
DatabaseLoadAllWorkouts == Req("Database", "LoadAllWorkouts", None)

(* serde_json: a payload is malformed text or the text of one workout *)
ToJson(w) == [wellformed |-> TRUE, workout |-> Some(w)]
MalformedJson == [wellformed |-> FALSE, workout |-> None]
FromJson(j) == IF j.wellformed THEN j.workout ELSE None

StorageSaveCurrentWorkout(w) == Req("Storage", "SaveCurrentWorkout", Some(ToJson(w)))
DatabaseSaveWorkout(w) == Req("Database", "SaveWorkout", Some(ToJson(w)))

(* the requests of a Command addressed to one capability, in order *)
ReqsOf(command, cap) == SelectSeq(command, LAMBDA r : r.cap = cap)

----------------------------------------------------------------------------
(* The history variable `session` follows one workout from a successful    *)
(* StartWorkout: `run` counts the ticks delivered while timer_running,     *)
(* `dropped` records that a tick was delivered while it was not.  Any      *)
(* event other than a timer event ends the observation.                    *)

SessionIdle == [phase |-> "idle", run |-> 0, dropped |-> FALSE]
SessionStart == [phase |-> "clean", run |-> 0, dropped |-> FALSE]
SessionOther == SessionIdle
SessionTimer == IF session.phase = "clean" THEN session ELSE SessionIdle
SessionTick ==
    IF session.phase = "clean"
    THEN IF timer_running
         THEN [session EXCEPT !.run = @ + 1]
         ELSE [session EXCEPT !.dropped = TRUE]
    ELSE SessionIdle
SessionFinish ==
    IF session.phase = "clean"
    THEN [session EXCEPT !.phase = "finished"]
    ELSE SessionIdle

Ev(type) == [type |-> type]

(* the host threads *)
Threads == 1..MaxThreads

(* the tables init_schema creates *)
NoTables == [workouts |-> {}, exercises |-> {}, exerciseSets |-> {}]

----------------------------------------------------------------------------
Init ==
    /\ current_workout = None
    /\ workout_timer_seconds = 0
    /\ timer_running = FALSE
    /\ workout_history = <<>>
    /\ history_detail_view = None
    /\ selected_tab = "Workout"
    /\ navigation_stack = <<>>
    /\ showing_add_exercise = FALSE
    /\ showing_import = FALSE
    /\ is_loading = FALSE
    /\ error_message = None
    /\ showing_plate_calculator = FALSE
    /\ plate_calculation = None
    /\ view = None
    /\ completed = None
    /\ routed = None
    /\ db = NoTables
    /\ tx = None
    /\ saving = None
    /\ save_result = None
    /\ loaded = None
    /\ saved = {}
    /\ thread_pc = [t \in Threads |-> "idle"]
    /\ core_lock = None
    /\ pasted = MalformedJson
    /\ effects = <<>>
    /\ lastEvent = Ev("None")
    /\ panicked = FALSE
    /\ session = SessionIdle

----------------------------------------------------------------------------
(* Workout management (update/workout.rs) *)

(* how many entries of a history list were finished by this run *)
FinishedHere(history) ==
    Cardinality({i \in 1..Len(history) :
                    history[i].end_timestamp = Some(Now)})

(* `model.current_workout.is_some()` *)
WorkoutInProgressNever(current) == FALSE
WorkoutInProgress(current) == IsSome(current)

(* the Command of a StartWorkout that created `workout` *)
StartWorkoutEffectsNoSave(workout) == <<TimerStart, Render>>
StartWorkoutEffects(workout) ==
    <<TimerStart, StorageSaveCurrentWorkout(workout), Render>>

StartWorkout ==
    /\ ~panicked
    /\ UNCHANGED boundary
    /\ UNCHANGED database
    /\ UNCHANGED observed
    /\ UNCHANGED calculator
    /\ UNCHANGED nav
    /\ lastEvent' = Ev("StartWorkout")
    /\ IF WorkoutInProgress(current_workout)
       THEN /\ error_message' = Some(WIP_MSG)
            /\ effects' = <<Render>>
            /\ session' = SessionOther
            /\ UNCHANGED <<current_workout, workout_timer_seconds,
                           timer_running>>
       ELSE /\ CanIdNew(UsedIds, 1)
            /\ current_workout' = Some(WorkoutNew(IdNew(UsedIds, 1)))
            /\ workout_timer_seconds' = 0
            /\ timer_running' = TRUE
            /\ error_message' = None
            /\ effects' = StartWorkoutEffects(WorkoutNew(IdNew(UsedIds, 1)))
            /\ session' = SessionStart
    /\ UNCHANGED <<workout_history, showing_add_exercise, showing_import,
                   is_loading, panicked>>

(* `model.workout_history.insert(0, workout.clone())` *)
HistoryInsertAtEnd(history, workout) == Append(history, workout)
HistoryInsert(history, workout) == <<workout>> \o history

(* the Command of a FinishWorkout that found no active workout *)
FinishIdleEffectsStopTimer == <<TimerStop, Render>>
FinishIdleEffects == <<Render>>

FinishWorkout ==
    /\ ~panicked
    /\ UNCHANGED boundary
    /\ UNCHANGED database
    /\ UNCHANGED observed
    /\ UNCHANGED calculator
    /\ UNCHANGED nav
    /\ lastEvent' = Ev("FinishWorkout")
    /\ IF IsSome(current_workout)
       THEN LET workout == WorkoutFinish(Unwrap(current_workout),
                                         workout_timer_seconds)
            IN  /\ FinishedHere(workout_history) < MaxFinished
                /\ workout_history' = HistoryInsert(workout_history, workout)
                /\ effects' = <<DatabaseSaveWorkout(workout),
                                StorageDeleteCurrentWorkout, TimerStop, Render>>
       ELSE /\ effects' = FinishIdleEffects
            /\ UNCHANGED workout_history
    /\ current_workout' = None
    /\ workout_timer_seconds' = 0
    /\ timer_running' = FALSE
    /\ error_message' = None
    /\ session' = SessionFinish
    /\ UNCHANGED <<showing_add_exercise, showing_import, is_loading, panicked>>

(* the Command of DiscardWorkout *)
DiscardWorkoutEffectsNoStop == <<StorageDeleteCurrentWorkout, Render>>
DiscardWorkoutEffects == <<StorageDeleteCurrentWorkout, TimerStop, Render>>

DiscardWorkout ==
    /\ ~panicked
    /\ UNCHANGED boundary
    /\ UNCHANGED database
    /\ UNCHANGED observed
    /\ UNCHANGED calculator
    /\ UNCHANGED nav
    /\ lastEvent' = Ev("DiscardWorkout")
    /\ current_workout' = None
    /\ workout_timer_seconds' = 0
    /\ timer_running' = FALSE
    /\ error_message' = None
    /\ effects' = DiscardWorkoutEffects
    /\ session' = SessionOther
    /\ UNCHANGED <<workout_history, showing_add_exercise, showing_import,
                   is_loading, panicked>>

----------------------------------------------------------------------------
(* Timer events (update/timer.rs) and TimerResponse                        *)
(* (update/capabilities.rs)                                                *)

(* The ticks explored: MaxTicks from zero, and the one at i32::MAX. *)
TickBounded(s) ==
    \/ s >= 0 /\ s < MaxTicks
    \/ s = I32Max

(* `if model.timer_running { model.workout_timer_seconds += 1; }` where    *)
(* the addition does not overflow                                          *)
TickSecondsAlways(running, s) == IF s = I32Max THEN s ELSE s + 1
TickSeconds(running, s) == IF running THEN s + 1 ELSE s

(* One delivered tick.  `+= 1` at i32::MAX panics in a build with overflow *)
(* checks and wraps to i32::MIN in a build without them.                   *)
Tick(type) ==
    /\ ~panicked
    /\ UNCHANGED boundary
    /\ UNCHANGED database
    /\ UNCHANGED observed
    /\ UNCHANGED calculator
    /\ UNCHANGED nav
    /\ lastEvent' = Ev(type)
    /\ session' = SessionTick
    /\ timer_running => TickBounded(workout_timer_seconds)
    /\ IF timer_running /\ workout_timer_seconds = I32Max
       THEN \/ /\ panicked' = TRUE
               /\ effects' = <<>>
               /\ UNCHANGED workout_timer_seconds
            \/ /\ workout_timer_seconds' = I32Min
               /\ effects' = <<Render>>
               /\ UNCHANGED panicked
       ELSE /\ workout_timer_seconds' =
                   TickSeconds(timer_running, workout_timer_seconds)
            /\ effects' = <<Render>>
            /\ UNCHANGED panicked
    /\ UNCHANGED <<current_workout, timer_running, workout_history,
                   showing_add_exercise, showing_import, is_loading,
                   error_message>>

TimerTick == Tick("TimerTick")

TimerResponseTick == Tick("TimerResponse.Tick")

TimerResponseOther ==
    /\ ~panicked
    /\ UNCHANGED boundary
    /\ UNCHANGED database
    /\ UNCHANGED observed
    /\ UNCHANGED calculator
    /\ UNCHANGED nav
    /\ lastEvent' = Ev("TimerResponse.StartedOrStopped")
    /\ effects' = <<Render>>
    /\ session' = SessionTimer
    /\ UNCHANGED <<current_workout, workout_timer_seconds, timer_running,
                   workout_history, showing_add_exercise, showing_import,
                   is_loading, error_message, panicked>>

SetTimer(type, running) ==
    /\ ~panicked
    /\ UNCHANGED boundary
    /\ UNCHANGED database
    /\ UNCHANGED observed
    /\ UNCHANGED calculator
    /\ UNCHANGED nav
    /\ lastEvent' = Ev(type)
    /\ timer_running' = running
    /\ effects' = <<IF running THEN TimerStart ELSE TimerStop>>
    /\ session' = SessionTimer
    /\ UNCHANGED <<current_workout, workout_timer_seconds, workout_history,
                   showing_add_exercise, showing_import, is_loading,
                   error_message, panicked>>

StartTimer == SetTimer("StartTimer", TRUE)

StopTimer == SetTimer("StopTimer", FALSE)

ToggleTimer == SetTimer("ToggleTimer", ~timer_running)

----------------------------------------------------------------------------
(* Workouts that reach the core from outside it: held by the host's        *)
(* storage or database, or pasted into the import view.  Deserialization   *)
(* checks neither identifiers nor set_index.                               *)

ExtSet(id, exercise_id, workout_id, set_index) ==
    [id |-> id, exercise_id |-> exercise_id, workout_id |-> workout_id,
     set_index |-> set_index, is_completed |-> FALSE,
     actual |-> SetActualDefault]

ExtExercise(id, workout_id, sets) ==
    [id |-> id, workout_id |-> workout_id, sets |-> sets]

ExtWorkout(id, finished, exercises) ==
    [id |-> id,
     duration |-> IF finished THEN Some(5) ELSE None,
     end_timestamp |-> IF finished THEN Some("t0") ELSE None,
     exercises |-> exercises]

(* what the host's storage and database may hand back: a workout in       *)
(* progress, and a finished one whose identifiers and set_index no         *)
(* reducer produced                                                        *)
StoredWorkouts ==
    { ExtWorkout(ExtUuid, FALSE,
        <<ExtExercise(ExtUuid, ExtUuid,
            <<ExtSet(ExtUuid, ExtUuid, ExtUuid, 0)>>)>>),
      ExtWorkout(BadId, TRUE,
        <<ExtExercise(ExtUuid, BadId,
            <<ExtSet(ExtUuid, ExtUuid, BadId, 1)>>)>>) }

StoredHistories ==
    { <<>>,
      <<ExtWorkout(ExtUuid, TRUE, <<>>),
        ExtWorkout(BadId, TRUE, <<ExtExercise(ExtUuid, BadId, <<>>)>>)>> }

(* Utc::now() - workout.start_timestamp, in seconds: a start in the        *)
(* future, 2^31 - 1 seconds ago, 2^31 seconds ago                          *)
WallClockDeltas == {I64(-1, 7), I64(0, I32Max), I64(1, 0)}

----------------------------------------------------------------------------
(* Capability responses (update/capabilities.rs) *)

(* `elapsed.num_seconds().max(0) as i32` *)
ElapsedSeconds(delta) == AsI32(Max0(delta))

DatabaseResponseSavedOrDeleted ==
    /\ ~panicked
    /\ UNCHANGED boundary
    /\ UNCHANGED database
    /\ UNCHANGED observed
    /\ UNCHANGED calculator
    /\ UNCHANGED nav
    /\ lastEvent' = Ev("DatabaseResponse.WorkoutSavedOrDeleted")
    /\ is_loading' = FALSE
    /\ effects' = <<Render>>
    /\ session' = SessionOther
    /\ UNCHANGED <<current_workout, workout_timer_seconds, timer_running,
                   workout_history, showing_add_exercise, showing_import,
                   error_message, panicked>>

DatabaseResponseHistoryLoaded ==
    /\ ~panicked
    /\ UNCHANGED boundary
    /\ UNCHANGED database
    /\ UNCHANGED observed
    /\ UNCHANGED calculator
    /\ UNCHANGED nav
    /\ lastEvent' = Ev("DatabaseResponse.HistoryLoaded")
    /\ is_loading' = FALSE
    /\ \E workouts \in StoredHistories : workout_history' = workouts
    /\ effects' = <<Render>>
    /\ session' = SessionOther
    /\ UNCHANGED <<current_workout, workout_timer_seconds, timer_running,
                   showing_add_exercise, showing_import, error_message,
                   panicked>>

DatabaseResponseWorkoutLoaded ==
    /\ ~panicked
    /\ UNCHANGED boundary
    /\ UNCHANGED database
    /\ UNCHANGED observed
    /\ UNCHANGED calculator
    /\ UNCHANGED nav
    /\ is_loading' = FALSE
    /\ \E workout \in {None} \cup {Some(w) : w \in StoredWorkouts} :
          /\ lastEvent' = [type |-> "DatabaseResponse.WorkoutLoaded",
                           workout |-> workout]
          /\ current_workout' = workout
    /\ effects' = <<Render>>
    /\ session' = SessionOther
    /\ UNCHANGED <<workout_timer_seconds, timer_running, workout_history,
                   showing_add_exercise, showing_import, error_message,
                   panicked>>

(* the record of a CurrentWorkoutLoaded response: its payload, and the     *)
(* wall-clock seconds since the start_timestamp of the workout in it       *)
CurrentWorkoutLoadedEvent(workout_json, delta) ==
    [type |-> "StorageResponse.CurrentWorkoutLoaded",
     workout_json |-> workout_json, delta |-> delta]

StorageResponseCurrentWorkoutLoaded ==
    /\ ~panicked
    /\ UNCHANGED boundary
    /\ UNCHANGED database
    /\ UNCHANGED observed
    /\ UNCHANGED calculator
    /\ UNCHANGED nav
    /\ is_loading' = FALSE
    /\ \E workout_json \in {None, Some(MalformedJson)}
                              \cup {Some(ToJson(w)) : w \in StoredWorkouts} :
          IF IsSome(workout_json) /\ IsSome(FromJson(Unwrap(workout_json)))
          THEN \E delta \in WallClockDeltas :
                  /\ lastEvent' = CurrentWorkoutLoadedEvent(workout_json,
                                                            Some(delta))
                  /\ workout_timer_seconds' = ElapsedSeconds(delta)
                  /\ current_workout' = FromJson(Unwrap(workout_json))
                  /\ timer_running' = TRUE
                  /\ effects' = <<TimerStart>>
                  /\ UNCHANGED error_message
          ELSE /\ lastEvent' = CurrentWorkoutLoadedEvent(workout_json, None)
               /\ error_message' =
                     IF IsSome(workout_json)
                     THEN Some(Msg("Failed to load workout: {}", <<"serde">>))
                     ELSE error_message
               /\ effects' = <<Render>>
               /\ UNCHANGED <<workout_timer_seconds, current_workout,
                              timer_running>>
    /\ session' = SessionOther
    /\ UNCHANGED <<workout_history, showing_add_exercise, showing_import, panicked>>

StorageResponseOther ==
    /\ ~panicked
    /\ UNCHANGED boundary
    /\ UNCHANGED database
    /\ UNCHANGED observed
    /\ UNCHANGED calculator
    /\ UNCHANGED nav
    /\ is_loading' = FALSE
    /\ \/ /\ lastEvent' = Ev("StorageResponse.CurrentWorkoutSavedOrDeleted")
          /\ UNCHANGED error_message
       \/ /\ lastEvent' = Ev("StorageResponse.Error")
          /\ error_message' = Some(Msg("Storage error: {}", <<"io">>))
    /\ effects' = <<Render>>
    /\ session' = SessionOther
    /\ UNCHANGED <<current_workout, workout_timer_seconds, timer_running,
                   workout_history, showing_add_exercise, showing_import, panicked>>

ErrorEvent ==
    /\ ~panicked
    /\ UNCHANGED boundary
    /\ UNCHANGED database
    /\ UNCHANGED observed
    /\ UNCHANGED calculator
    /\ UNCHANGED nav
    /\ lastEvent' = Ev("Error")
    /\ error_message' = Some(Msg("{}", <<"host">>))
    /\ is_loading' = FALSE
    /\ effects' = <<Render>>
    /\ session' = SessionOther
    /\ UNCHANGED <<current_workout, workout_timer_seconds, timer_running,
                   workout_history, showing_add_exercise, showing_import, panicked>>

----------------------------------------------------------------------------
(* Model helpers (app/model.rs) *)

(* Model::get_or_create_workout, with `id` the identifier Workout::new()   *)
(* would generate                                                          *)
GetOrCreateWorkoutAlwaysNew(current, id) == WorkoutNew(id)
GetOrCreateWorkout(current, id) ==
    IF current = None THEN WorkoutNew(id) ELSE Unwrap(current)

(* Model::find_exercise_mut: the position of the first exercise of the     *)
(* active workout whose id is exercise_id, 0 when there is none            *)
FindExerciseAny(current, exercise_id) ==
    IF current = None \/ Unwrap(current).exercises = <<>> THEN 0 ELSE 1
FindExercise(current, exercise_id) ==
    IF current = None THEN 0
    ELSE LET exercises == Unwrap(current).exercises
             hits == {i \in 1..Len(exercises) : exercises[i].id = exercise_id}
         IN  IF hits = {} THEN 0
             ELSE CHOOSE i \in hits : \A j \in hits : i <= j

(* Model::find_set_mut: the position <<i, j>> of the first set, in the     *)
(* order of exercises and of the sets in each, whose id is set_id;         *)
(* <<0, 0>> when there is none                                             *)
FindSet(current, set_id) ==
    IF current = None THEN <<0, 0>>
    ELSE LET exercises == Unwrap(current).exercises
             hits == {p \in UNION {{<<i, j>> : j \in 1..Len(exercises[i].sets)} :
                                      i \in 1..Len(exercises)} :
                         exercises[p[1]].sets[p[2]].id = set_id}
         IN  IF hits = {} THEN <<0, 0>>
             ELSE CHOOSE p \in hits :
                     \A q \in hits :
                        p[1] < q[1] \/ (p[1] = q[1] /\ p[2] <= q[2])

----------------------------------------------------------------------------
(* Exercise management (update/exercise.rs) *)

InvalidExerciseIdMsg == Msg("Invalid exercise ID: {}", <<"Invalid UUID">>)

AddExercise ==
    /\ ~panicked
    /\ UNCHANGED boundary
    /\ UNCHANGED database
    /\ UNCHANGED observed
    /\ UNCHANGED calculator
    /\ UNCHANGED nav
    /\ lastEvent' = Ev("AddExercise")
    /\ LET created == IF current_workout = None THEN 1 ELSE 0
           workout == GetOrCreateWorkout(current_workout, IdNew(UsedIds, 1))
           new_exercise ==
               ExerciseFromGlobal(IdNew(UsedIds, created + 1), workout.id)
       IN  /\ CanIdNew(UsedIds, created + 1)
           /\ Len(workout.exercises) < MaxExercises
           /\ current_workout' =
                 Some([workout EXCEPT
                          !.exercises = Append(@, new_exercise)])
    /\ showing_add_exercise' = FALSE
    /\ error_message' = None
    /\ effects' = <<Render>>
    /\ session' = SessionOther
    /\ UNCHANGED <<workout_timer_seconds, timer_running, workout_history,
                   showing_import, is_loading, panicked>>

(* `workout.exercises.retain(|e| e.id != id)` *)
RetainOthers(exercises, id) == SelectSeq(exercises, LAMBDA e : e.id # id)

DeleteExercise(exercise_id) ==
    /\ ~panicked
    /\ UNCHANGED boundary
    /\ UNCHANGED database
    /\ UNCHANGED observed
    /\ UNCHANGED calculator
    /\ UNCHANGED nav
    /\ lastEvent' = [type |-> "DeleteExercise", exercise_id |-> exercise_id]
    /\ IF IsSome(IdFromString(exercise_id))
       THEN /\ current_workout' =
                  IF IsSome(current_workout)
                  THEN Some([Unwrap(current_workout) EXCEPT
                               !.exercises = RetainOthers(@, exercise_id)])
                  ELSE current_workout
            /\ UNCHANGED error_message
       ELSE /\ error_message' = Some(InvalidExerciseIdMsg)
            /\ UNCHANGED current_workout
    /\ effects' = <<Render>>
    /\ session' = SessionOther
    /\ UNCHANGED <<workout_timer_seconds, timer_running, workout_history,
                   showing_add_exercise, showing_import, is_loading, panicked>>

SetShowingAddExercise(type, showing) ==
    /\ ~panicked
    /\ UNCHANGED boundary
    /\ UNCHANGED database
    /\ UNCHANGED observed
    /\ UNCHANGED calculator
    /\ UNCHANGED nav
    /\ lastEvent' = Ev(type)
    /\ showing_add_exercise' = showing
    /\ effects' = <<Render>>
    /\ session' = SessionOther
    /\ UNCHANGED <<current_workout, workout_timer_seconds, timer_running,
                   workout_history, showing_import, is_loading,
                   error_message, panicked>>

ShowAddExerciseView == SetShowingAddExercise("ShowAddExerciseView", TRUE)

DismissAddExerciseView == SetShowingAddExercise("DismissAddExerciseView", FALSE)

InvalidPositionMsg(from_index, to_index, total) ==
    Msg("Cannot move exercise: invalid position (from: {}, to: {}, total: {})",
        <<from_index, to_index, total>>)

(* `from_index < workout.exercises.len()                                   *)
(*      && to_index < workout.exercises.len()`                             *)
ValidPositionsToInclusive(from_index, to_index, len) ==
    from_index < len /\ to_index <= len
ValidPositions(from_index, to_index, len) ==
    from_index < len /\ to_index < len

(* Vec::remove(index) and Vec::insert(index, x), index counted from 0;     *)
(* remove panics when index >= len, insert when index > len                *)
VecRemove(seq, index) ==
    SubSeq(seq, 1, index) \o SubSeq(seq, index + 2, Len(seq))
VecInsertAtEnd(seq, index, x) == Append(seq, x)
VecInsert(seq, index, x) ==
    SubSeq(seq, 1, index) \o <<x>> \o SubSeq(seq, index + 1, Len(seq))

MoveExercise(from_index, to_index) ==
    /\ ~panicked
    /\ UNCHANGED boundary
    /\ UNCHANGED database
    /\ UNCHANGED observed
    /\ UNCHANGED calculator
    /\ UNCHANGED nav
    /\ lastEvent' = [type |-> "MoveExercise", from_index |-> from_index,
                     to_index |-> to_index]
    /\ IF IsSome(current_workout)
       THEN LET workout == Unwrap(current_workout)
                len == Len(workout.exercises)
            IN  IF ValidPositions(from_index, to_index, len)
                THEN IF from_index >= len
                     THEN /\ panicked' = TRUE
                          /\ effects' = <<>>
                          /\ UNCHANGED <<current_workout, error_message>>
                     ELSE LET exercise == workout.exercises[from_index + 1]
                              rest == VecRemove(workout.exercises, from_index)
                          IN  IF to_index > Len(rest)
                              THEN /\ panicked' = TRUE
                                   /\ effects' = <<>>
                                   /\ current_workout' =
                                         Some([workout EXCEPT
                                                 !.exercises = rest])
                                   /\ UNCHANGED error_message
                              ELSE /\ current_workout' =
                                         Some([workout EXCEPT !.exercises =
                                            VecInsert(rest, to_index, exercise)])
                                   /\ effects' = <<Render>>
                                   /\ UNCHANGED <<error_message, panicked>>
                ELSE /\ error_message' =
                           Some(InvalidPositionMsg(from_index, to_index, len))
                     /\ effects' = <<Render>>
                     /\ UNCHANGED <<current_workout, panicked>>
       ELSE /\ effects' = <<Render>>
            /\ UNCHANGED <<current_workout, error_message, panicked>>
    /\ session' = SessionOther
    /\ UNCHANGED <<workout_timer_seconds, timer_running, workout_history,
                   showing_add_exercise, showing_import, is_loading>>

----------------------------------------------------------------------------
(* Re-ordering a workout of several exercises                              *)

MaxMoveExercises == 4

(* the workout after StartWorkout and n AddExercise events *)
MoveWorkout(n) ==
    [WorkoutNew(UuidPool[1]) EXCEPT !.exercises =
        [i \in 1..n |-> ExerciseFromGlobal(UuidPool[i + 1], UuidPool[1])]]

InitMove ==
    /\ \E n \in 0..MaxMoveExercises : current_workout = Some(MoveWorkout(n))
    /\ workout_timer_seconds = 0
    /\ timer_running = TRUE
    /\ workout_history = <<>>
    /\ history_detail_view = None
    /\ selected_tab = "Workout"
    /\ navigation_stack = <<>>
    /\ showing_add_exercise = FALSE
    /\ showing_import = FALSE
    /\ is_loading = FALSE
    /\ error_message = None
    /\ showing_plate_calculator = FALSE
    /\ plate_calculation = None
    /\ view = None
    /\ completed = None
    /\ routed = None
    /\ db = NoTables
    /\ tx = None
    /\ saving = None
    /\ save_result = None
    /\ loaded = None
    /\ saved = {}
    /\ thread_pc = [t \in Threads |-> "idle"]
    /\ core_lock = None
    /\ pasted = MalformedJson
    /\ effects = <<Render>>
    /\ lastEvent = Ev("None")
    /\ panicked = FALSE
    /\ session = SessionIdle

----------------------------------------------------------------------------
(* Set management (update/sets.rs) *)

OutOfBoundsMsg(set_index, total) ==
    Msg("Cannot delete set: index {} is out of bounds (total sets: {})",
        <<set_index, total>>)

(* `exercise.sets.remove(set_index)`, set_index counted from 0 *)
RemoveAt(sets, set_index) ==
    SubSeq(sets, 1, set_index) \o SubSeq(sets, set_index + 2, Len(sets))

(* `for (idx, set) in exercise.sets.iter_mut().enumerate()                 *)
(*      { set.set_index = idx as i32; }`                                   *)
ReindexNot(sets) == sets
Reindex(sets) ==
    [i \in 1..Len(sets) |-> [sets[i] EXCEPT !.set_index = i - 1]]

(* `set_index < exercise.sets.len()` *)
SetIndexInBoundsInclusive(set_index, len) == set_index <= len
SetIndexInBounds(set_index, len) == set_index < len

(* `model.error_message = None; // Clear any stale errors on successful    *)
(* add`                                                                    *)
StaleErrorKept == error_message
StaleErrorCleared == None

AddSet(exercise_id) ==
    /\ ~panicked
    /\ UNCHANGED boundary
    /\ UNCHANGED database
    /\ UNCHANGED observed
    /\ UNCHANGED calculator
    /\ UNCHANGED nav
    /\ lastEvent' = [type |-> "AddSet", exercise_id |-> exercise_id]
    /\ LET i == FindExercise(current_workout, exercise_id)
       IN  IF IsSome(IdFromString(exercise_id))
           THEN IF i # 0
                THEN /\ CanIdNew(UsedIds, 1)
                     /\ Len(Unwrap(current_workout).exercises[i].sets) < MaxSets
                     /\ current_workout' =
                           Some([Unwrap(current_workout) EXCEPT
                                    !.exercises[i] =
                                        ExerciseAddSet(@, IdNew(UsedIds, 1))])
                     /\ error_message' = StaleErrorCleared
                ELSE UNCHANGED <<current_workout, error_message>>
           ELSE /\ error_message' = Some(InvalidExerciseIdMsg)
                /\ UNCHANGED current_workout
    /\ effects' = <<Render>>
    /\ session' = SessionOther
    /\ UNCHANGED <<workout_timer_seconds, timer_running, workout_history,
                   showing_add_exercise, showing_import, is_loading, panicked>>

DeleteSet(exercise_id, set_index) ==
    /\ ~panicked
    /\ UNCHANGED boundary
    /\ UNCHANGED database
    /\ UNCHANGED observed
    /\ UNCHANGED calculator
    /\ UNCHANGED nav
    /\ lastEvent' = [type |-> "DeleteSet", exercise_id |-> exercise_id,
                     set_index |-> set_index]
    /\ LET i == FindExercise(current_workout, exercise_id)
       IN  IF IsSome(IdFromString(exercise_id))
           THEN IF i # 0
                THEN LET sets == Unwrap(current_workout).exercises[i].sets
                     IN  IF SetIndexInBounds(set_index, Len(sets))
                         THEN /\ current_workout' =
                                    Some([Unwrap(current_workout) EXCEPT
                                       !.exercises[i].sets =
                                          Reindex(RemoveAt(sets, set_index))])
                              /\ UNCHANGED error_message
                         ELSE /\ error_message' =
                                    Some(OutOfBoundsMsg(set_index, Len(sets)))
                              /\ UNCHANGED current_workout
                ELSE UNCHANGED <<current_workout, error_message>>
           ELSE /\ error_message' = Some(InvalidExerciseIdMsg)
                /\ UNCHANGED current_workout
    /\ effects' = <<Render>>
    /\ session' = SessionOther
    /\ UNCHANGED <<workout_timer_seconds, timer_running, workout_history,
                   showing_add_exercise, showing_import, is_loading, panicked>>

InvalidSetIdMsg == Msg("Invalid set ID: {}", <<"Invalid UUID">>)

(* the SetActual values sent with UpdateSetActual *)
SetActuals == {SetActualDefault, SetActualNew(Some(100), Some(5))}

UpdateSetActual(set_id, actual) ==
    /\ ~panicked
    /\ UNCHANGED boundary
    /\ UNCHANGED database
    /\ UNCHANGED observed
    /\ UNCHANGED calculator
    /\ UNCHANGED nav
    /\ lastEvent' = [type |-> "UpdateSetActual", set_id |-> set_id,
                     actual |-> actual]
    /\ LET p == FindSet(current_workout, set_id)
       IN  IF IsSome(IdFromString(set_id))
           THEN /\ current_workout' =
                      IF p # <<0, 0>>
                      THEN Some([Unwrap(current_workout) EXCEPT
                                   !.exercises[p[1]].sets[p[2]].actual = actual])
                      ELSE current_workout
                /\ UNCHANGED error_message
           ELSE /\ error_message' = Some(InvalidSetIdMsg)
                /\ UNCHANGED current_workout
    /\ effects' = <<Render>>
    /\ session' = SessionOther
    /\ UNCHANGED <<workout_timer_seconds, timer_running, workout_history,
                   showing_add_exercise, showing_import, is_loading, panicked>>

ToggleSetCompleted(set_id) ==
    /\ ~panicked
    /\ UNCHANGED boundary
    /\ UNCHANGED database
    /\ UNCHANGED observed
    /\ UNCHANGED calculator
    /\ UNCHANGED nav
    /\ lastEvent' = [type |-> "ToggleSetCompleted", set_id |-> set_id]
    /\ LET p == FindSet(current_workout, set_id)
       IN  IF IsSome(IdFromString(set_id))
           THEN /\ current_workout' =
                      IF p # <<0, 0>>
                      THEN Some([Unwrap(current_workout) EXCEPT
                                   !.exercises[p[1]].sets[p[2]].is_completed =
                                       ~@])
                      ELSE current_workout
                /\ UNCHANGED error_message
           ELSE /\ error_message' = Some(InvalidSetIdMsg)
                /\ UNCHANGED current_workout
    /\ effects' = <<Render>>
    /\ session' = SessionOther
    /\ UNCHANGED <<workout_timer_seconds, timer_running, workout_history,
                   showing_add_exercise, showing_import, is_loading, panicked>>

----------------------------------------------------------------------------
(* History and navigation (update/history.rs) *)

Tabs == {"Workout", "History"}

HistoryDetail(workout_id) == [kind |-> "HistoryDetail", workout_id |-> workout_id]

LoadHistory ==
    /\ ~panicked
    /\ UNCHANGED boundary
    /\ UNCHANGED database
    /\ UNCHANGED observed
    /\ UNCHANGED calculator
    /\ UNCHANGED nav
    /\ lastEvent' = Ev("LoadHistory")
    /\ is_loading' = TRUE
    /\ effects' = <<DatabaseLoadAllWorkouts>>
    /\ session' = SessionOther
    /\ UNCHANGED <<current_workout, workout_timer_seconds, timer_running,
                   workout_history, showing_add_exercise, showing_import,
                   error_message, panicked>>

ViewHistoryItem(workout_id) ==
    /\ ~panicked
    /\ UNCHANGED boundary
    /\ UNCHANGED database
    /\ UNCHANGED observed
    /\ UNCHANGED calculator
    /\ Len(navigation_stack) < MaxNav
    /\ lastEvent' = [type |-> "ViewHistoryItem", workout_id |-> workout_id]
    /\ navigation_stack' = Append(navigation_stack, HistoryDetail(workout_id))
    /\ effects' = <<Render>>
    /\ session' = SessionOther
    /\ UNCHANGED <<current_workout, workout_timer_seconds, timer_running,
                   workout_history, history_detail_view, selected_tab,
                   showing_add_exercise, showing_import, is_loading,
                   error_message, panicked>>

(* Vec::pop(): drops the last element, does nothing on an empty vector *)
VecPop(seq) == IF seq = <<>> THEN seq ELSE SubSeq(seq, 1, Len(seq) - 1)

NavigateBack ==
    /\ ~panicked
    /\ UNCHANGED boundary
    /\ UNCHANGED database
    /\ UNCHANGED observed
    /\ UNCHANGED calculator
    /\ lastEvent' = Ev("NavigateBack")
    /\ navigation_stack' = VecPop(navigation_stack)
    /\ effects' = <<Render>>
    /\ session' = SessionOther
    /\ UNCHANGED <<current_workout, workout_timer_seconds, timer_running,
                   workout_history, history_detail_view, selected_tab,
                   showing_add_exercise, showing_import, is_loading,
                   error_message, panicked>>

(* `model.navigation_stack.clear()` *)
NavigationStackKept(stack) == stack
NavigationStackClear(stack) == <<>>

ChangeTab(tab) ==
    /\ ~panicked
    /\ UNCHANGED boundary
    /\ UNCHANGED database
    /\ UNCHANGED observed
    /\ UNCHANGED calculator
    /\ lastEvent' = [type |-> "ChangeTab", tab |-> tab]
    /\ selected_tab' = tab
    /\ navigation_stack' = NavigationStackClear(navigation_stack)
    /\ error_message' = None
    /\ effects' = <<Render>>
    /\ session' = SessionOther
    /\ UNCHANGED <<current_workout, workout_timer_seconds, timer_running,
                   workout_history, history_detail_view,
                   showing_add_exercise, showing_import, is_loading, panicked>>

----------------------------------------------------------------------------
(* Import (update/import_export.rs, Thiccc::validate_workout_ids)          *)

(* The identifiers validate_workout_ids passes to Id::from_string, in the  *)
(* order it does, each with the error it reports for it.                   *)
RECURSIVE SetIdChecksNoWorkoutId(_, _, _)
SetIdChecksNoWorkoutId(sets, exercise_idx, set_idx) ==
    IF set_idx >= Len(sets) THEN <<>>
    ELSE LET set == sets[set_idx + 1]
         IN  << [id |-> set.id,
                 err |-> Msg("Invalid set ID at exercise {} set {}: {}",
                             <<exercise_idx, set_idx>>)],
                [id |-> set.exercise_id,
                 err |-> Msg("Invalid exercise_id in set at exercise {} set {}: {}",
                             <<exercise_idx, set_idx>>)] >>
             \o SetIdChecksNoWorkoutId(sets, exercise_idx, set_idx + 1)

RECURSIVE SetIdChecks(_, _, _)
SetIdChecks(sets, exercise_idx, set_idx) ==
    IF set_idx >= Len(sets) THEN <<>>
    ELSE LET set == sets[set_idx + 1]
         IN  << [id |-> set.id,
                 err |-> Msg("Invalid set ID at exercise {} set {}: {}",
                             <<exercise_idx, set_idx>>)],
                [id |-> set.exercise_id,
                 err |-> Msg("Invalid exercise_id in set at exercise {} set {}: {}",
                             <<exercise_idx, set_idx>>)],
                [id |-> set.workout_id,
                 err |-> Msg("Invalid workout_id in set at exercise {} set {}: {}",
                             <<exercise_idx, set_idx>>)] >>
             \o SetIdChecks(sets, exercise_idx, set_idx + 1)

RECURSIVE ExerciseIdChecksSetsFirst(_, _)
ExerciseIdChecksSetsFirst(exercises, exercise_idx) ==
    IF exercise_idx >= Len(exercises) THEN <<>>
    ELSE LET exercise == exercises[exercise_idx + 1]
         IN  SetIdChecks(exercise.sets, exercise_idx, 0)
             \o << [id |-> exercise.id,
                    err |-> Msg("Invalid exercise ID at index {}: {}",
                                <<exercise_idx>>)],
                   [id |-> exercise.workout_id,
                    err |-> Msg("Invalid workout_id in exercise at index {}: {}",
                                <<exercise_idx>>)] >>
             \o ExerciseIdChecksSetsFirst(exercises, exercise_idx + 1)

RECURSIVE ExerciseIdChecks(_, _)
ExerciseIdChecks(exercises, exercise_idx) ==
    IF exercise_idx >= Len(exercises) THEN <<>>
    ELSE LET exercise == exercises[exercise_idx + 1]
         IN  << [id |-> exercise.id,
                 err |-> Msg("Invalid exercise ID at index {}: {}",
                             <<exercise_idx>>)],
                [id |-> exercise.workout_id,
                 err |-> Msg("Invalid workout_id in exercise at index {}: {}",
                             <<exercise_idx>>)] >>
             \o SetIdChecks(exercise.sets, exercise_idx, 0)
             \o ExerciseIdChecks(exercises, exercise_idx + 1)

(* validate_workout_ids: Ok(()) is None, Err(e) is Some(e) *)
ValidateWorkoutIds(workout) ==
    LET checks == <<[id |-> workout.id,
                     err |-> Msg("Invalid workout ID: {}", <<>>)]>>
                  \o ExerciseIdChecks(workout.exercises, 0)
        failed == {k \in 1..Len(checks) : IdFromString(checks[k].id) = None}
    IN  IF failed = {} THEN None
        ELSE Some(checks[CHOOSE k \in failed : \A l \in failed : k <= l].err)

(* every identifier and back-reference a workout carries *)
IdFields(w) ==
    {w.id}
    \cup UNION {{w.exercises[i].id, w.exercises[i].workout_id} :
                  i \in 1..Len(w.exercises)}
    \cup UNION {UNION {{w.exercises[i].sets[j].id,
                        w.exercises[i].sets[j].exercise_id,
                        w.exercises[i].sets[j].workout_id} :
                          j \in 1..Len(w.exercises[i].sets)} :
                  i \in 1..Len(w.exercises)}

MalformedIds(w) == {x \in IdFields(w) : ~IsUuid(x)}

(* set_index is 0..n-1 in list order in every exercise of w *)
DenseSetIndex(w) ==
    \A i \in 1..Len(w.exercises) :
       \A j \in 1..Len(w.exercises[i].sets) :
          w.exercises[i].sets[j].set_index = j - 1

(* The workouts pasted into the import view: no exercise, or one exercise  *)
(* with up to two sets whose set_index is 0 or 1; every identifier is      *)
(* well-formed, or up to two of them are malformed (one, when there are    *)
(* two sets).                                                              *)
ImportIds == {ExtUuid, BadId}
ImportSets ==
    {ExtSet(a, b, c, k) : a \in ImportIds, b \in ImportIds, c \in ImportIds,
                          k \in {0, 1}}
ImportSetLists ==
    {<<>>} \cup {<<x>> : x \in ImportSets}
           \cup {<<x, y>> : x \in ImportSets, y \in ImportSets}
ImportExerciseLists ==
    {<<>>} \cup {<<ExtExercise(a, b, sets)>> :
                    a \in ImportIds, b \in ImportIds, sets \in ImportSetLists}

(* how many identifier fields of a workout are malformed *)
RECURSIVE SumTo(_, _)
SumTo(f, n) == IF n = 0 THEN 0 ELSE f[n] + SumTo(f, n - 1)

Malformed(x) == IF IsUuid(x) THEN 0 ELSE 1

MalformedInSet(set) ==
    Malformed(set.id) + Malformed(set.exercise_id) + Malformed(set.workout_id)

MalformedInExercise(e) ==
    Malformed(e.id) + Malformed(e.workout_id)
    + SumTo([j \in 1..Len(e.sets) |-> MalformedInSet(e.sets[j])], Len(e.sets))

MalformedFieldCount(w) ==
    Malformed(w.id)
    + SumTo([i \in 1..Len(w.exercises) |-> MalformedInExercise(w.exercises[i])],
            Len(w.exercises))

ImportWorkouts ==
    {w \in {ExtWorkout(a, f, exercises) :
               a \in ImportIds, f \in BOOLEAN,
               exercises \in ImportExerciseLists} :
        \/ MalformedIds(w) = {}
        \/ /\ MalformedFieldCount(w) <=
                 (IF w.exercises # <<>> /\ Len(w.exercises[1].sets) = 2
                  THEN 1 ELSE 2)
           /\ DenseSetIndex(w)
           /\ w.duration = None}

ImportPayloads == {MalformedJson} \cup {ToJson(w) : w \in ImportWorkouts}

(* what the handler is given, for the record of the event: does the text   *)
(* parse, and is any identifier in it malformed                            *)
ImportEvent(json_data) ==
    [type |-> "ImportWorkout",
     parses |-> IsSome(FromJson(json_data)),
     malformed_ids |-> IF IsSome(FromJson(json_data))
                       THEN MalformedIds(Unwrap(FromJson(json_data))) # {}
                       ELSE FALSE]

ImportWorkout(json_data) ==
    /\ ~panicked
    /\ UNCHANGED boundary
    /\ UNCHANGED database
    /\ UNCHANGED observed
    /\ UNCHANGED calculator
    /\ UNCHANGED nav
    /\ lastEvent' = ImportEvent(json_data)
    /\ LET parsed == FromJson(json_data)
       IN  IF IsSome(parsed)
           THEN LET e == ValidateWorkoutIds(Unwrap(parsed))
                IN  IF IsSome(e)
                    THEN /\ error_message' =
                               Some(Msg("Invalid workout data: {}", e))
                         /\ UNCHANGED <<current_workout, showing_import>>
                    ELSE /\ current_workout' = parsed
                         /\ showing_import' = FALSE
                         /\ error_message' = None
           ELSE /\ error_message' =
                      Some(Msg("Failed to import workout: {}", <<"serde">>))
                /\ UNCHANGED <<current_workout, showing_import>>
    /\ effects' = <<Render>>
    /\ session' = SessionOther
    /\ UNCHANGED <<workout_timer_seconds, timer_running, workout_history,
                   showing_add_exercise, is_loading, panicked>>

SetShowingImport(type, showing) ==
    /\ ~panicked
    /\ UNCHANGED boundary
    /\ UNCHANGED database
    /\ UNCHANGED observed
    /\ UNCHANGED calculator
    /\ UNCHANGED nav
    /\ lastEvent' = Ev(type)
    /\ showing_import' = showing
    /\ effects' = <<Render>>
    /\ session' = SessionOther
    /\ UNCHANGED <<current_workout, workout_timer_seconds, timer_running,
                   workout_history, showing_add_exercise, is_loading,
                   error_message, panicked>>

ShowImportView == SetShowingImport("ShowImportView", TRUE)

DismissImportView == SetShowingImport("DismissImportView", FALSE)

----------------------------------------------------------------------------
(* The import view's text field and the Import button                      *)

(* ImportWorkout with the text the host's import field holds *)
ImportPasted == ImportWorkout(pasted)

(* A pasted workout whose exercises have the set counts `sizes`, with a    *)
(* malformed identifier at the positions `bad`.  Position <<0, 0, 1>> is   *)
(* the workout id; <<i, 0, 1>> and <<i, 0, 2>> are id and workout_id of    *)
(* the i-th exercise; <<i, j, 1>>, <<i, j, 2>> and <<i, j, 3>> are id,     *)
(* exercise_id and workout_id of its j-th set.                             *)
MaxPastedExercises == 2
MaxPastedSets == 2

PastedId(bad, position) == IF position \in bad THEN BadId ELSE ExtUuid

PastedWorkout(sizes, bad) ==
    ExtWorkout(PastedId(bad, <<0, 0, 1>>), FALSE,
        [i \in 1..Len(sizes) |->
            ExtExercise(PastedId(bad, <<i, 0, 1>>), PastedId(bad, <<i, 0, 2>>),
                [j \in 1..sizes[i] |->
                    ExtSet(PastedId(bad, <<i, j, 1>>),
                           PastedId(bad, <<i, j, 2>>),
                           PastedId(bad, <<i, j, 3>>), j - 1)])])

PastedShapes ==
    UNION {[1..n -> 0..MaxPastedSets] : n \in 0..MaxPastedExercises}

PastedPositions(sizes) ==
    {<<0, 0, 1>>}
    \cup {<<i, 0, f>> : i \in 1..Len(sizes), f \in 1..2}
    \cup {p \in (1..Len(sizes)) \X (1..MaxPastedSets) \X (1..3) :
             p[2] <= sizes[p[1]]}

(* the field holds a workout with no, one or two malformed identifiers *)
InitPasted ==
    /\ \E sizes \in PastedShapes :
          \E a \in PastedPositions(sizes), b \in PastedPositions(sizes) :
             \E bad \in {{}, {a, b}} :
                pasted = ToJson(PastedWorkout(sizes, bad))
    /\ current_workout = None
    /\ workout_timer_seconds = 0
    /\ timer_running = FALSE
    /\ workout_history = <<>>
    /\ history_detail_view = None
    /\ selected_tab = "Workout"
    /\ navigation_stack = <<>>
    /\ showing_add_exercise = FALSE
    /\ showing_import = TRUE
    /\ is_loading = FALSE
    /\ error_message = None
    /\ showing_plate_calculator = FALSE
    /\ plate_calculation = None
    /\ view = None
    /\ completed = None
    /\ routed = None
    /\ db = NoTables
    /\ tx = None
    /\ saving = None
    /\ save_result = None
    /\ loaded = None
    /\ saved = {}
    /\ thread_pc = [t \in Threads |-> "idle"]
    /\ core_lock = None
    /\ effects = <<>>
    /\ lastEvent = Ev("None")
    /\ panicked = FALSE
    /\ session = SessionIdle

----------------------------------------------------------------------------
(* Plate calculator (update/plate_calculator.rs, perform_plate_calculation *)
(* in mod.rs).  An f64 weight is written as its number of hundredths of a  *)
(* pound; the weights the model draws are multiples of a quarter pound,    *)
(* on which the f64 subtractions and the halving are exact.                *)

Epsilon == 1    \* the 0.01 tolerance of the greedy comparison

(* Plate::standard(), each plate by its weight *)
PlateStandard == <<4500, 3500, 2500, 1000, 500, 250>>

TargetNotPositiveMsg == Msg("Target weight must be greater than 0", <<>>)
BarNotPositiveMsg == Msg("Bar weight must be greater than 0", <<>>)
PercentageMsg(percentage) ==
    Msg("Percentage must be between 0 and 100 (got {})", <<percentage>>)
BelowBarMsg == Msg("Target weight is less than bar weight", <<>>)

(* percentage < 0.0 || percentage > 100.0 *)
PercentageOutOfRangeStrict(percentage) == percentage <= 0 \/ percentage >= 100
PercentageOutOfRange(percentage) == percentage < 0 \/ percentage > 100

(* target_weight * (percentage / 100.0), or the target itself *)
ActualWeight(target_weight, use_percentage) ==
    IF IsSome(use_percentage)
    THEN (target_weight * Unwrap(use_percentage)) \div 100
    ELSE target_weight

(* (actual_weight - bar_weight) / 2.0 *)
WeightPerSide(actual_weight, bar_weight) == (actual_weight - bar_weight) \div 2

(* while remaining >= plate.weight - 0.01 *)
PlateFitsStrictly(remaining, weight) == remaining > weight
PlateFits(remaining, weight) == remaining >= weight - Epsilon

(* for plate in &available_plates { while ... { push; remaining -= .. } } *)
RECURSIVE GreedyFill(_, _, _)
GreedyFill(available_plates, remaining, plates) ==
    IF available_plates = <<>>
    THEN plates
    ELSE IF PlateFits(remaining, Head(available_plates))
         THEN GreedyFill(available_plates,
                         remaining - Head(available_plates),
                         Append(plates, Head(available_plates)))
         ELSE GreedyFill(Tail(available_plates), remaining, plates)

PlateCalculationNew(total_weight, bar_weight, plates) ==
    [total_weight |-> total_weight,
     bar_type     |-> [name |-> "Bar", weight |-> bar_weight],
     plates       |-> plates,
     weight_unit  |-> "Lb"]

(* perform_plate_calculation: the new <<error_message, plate_calculation>> *)
PerformPlateCalculation(target_weight, bar_weight, use_percentage) ==
    LET actual_weight == ActualWeight(target_weight, use_percentage)
        weight_per_side == WeightPerSide(actual_weight, bar_weight)
    IN  IF weight_per_side < 0
        THEN <<Some(BelowBarMsg), None>>
        ELSE <<error_message,
               Some(PlateCalculationNew(actual_weight, bar_weight,
                        GreedyFill(PlateStandard, weight_per_side, <<>>)))>>

CalculatePlates(target_weight, bar_weight, use_percentage) ==
    /\ ~panicked
    /\ UNCHANGED boundary
    /\ UNCHANGED database
    /\ UNCHANGED observed
    /\ UNCHANGED nav
    /\ LET outcome ==
               IF target_weight <= 0
               THEN <<Some(TargetNotPositiveMsg), None>>
               ELSE IF bar_weight <= 0
               THEN <<Some(BarNotPositiveMsg), None>>
               ELSE IF IsSome(use_percentage)
                       /\ PercentageOutOfRange(Unwrap(use_percentage))
               THEN <<Some(PercentageMsg(Unwrap(use_percentage))), None>>
               ELSE PerformPlateCalculation(target_weight, bar_weight,
                                            use_percentage)
       IN  /\ error_message' = outcome[1]
           /\ plate_calculation' = outcome[2]
    /\ lastEvent' = [type |-> "CalculatePlates",
                     target_weight |-> target_weight,
                     bar_weight |-> bar_weight,
                     use_percentage |-> use_percentage]
    /\ effects' = <<Render>>
    /\ session' = SessionOther
    /\ UNCHANGED <<current_workout, workout_timer_seconds, timer_running,
                   workout_history, showing_add_exercise, showing_import,
                   is_loading, showing_plate_calculator, panicked>>

ClearPlateCalculation ==
    /\ ~panicked
    /\ UNCHANGED boundary
    /\ UNCHANGED database
    /\ UNCHANGED observed
    /\ UNCHANGED nav
    /\ plate_calculation' = None
    /\ lastEvent' = Ev("ClearPlateCalculation")
    /\ effects' = <<Render>>
    /\ session' = SessionOther
    /\ UNCHANGED <<current_workout, workout_timer_seconds, timer_running,
                   workout_history, showing_add_exercise, showing_import,
                   is_loading, error_message, showing_plate_calculator,
                   panicked>>

ShowPlateCalculator ==
    /\ ~panicked
    /\ UNCHANGED boundary
    /\ UNCHANGED database
    /\ UNCHANGED observed
    /\ UNCHANGED nav
    /\ showing_plate_calculator' = TRUE
    /\ lastEvent' = Ev("ShowPlateCalculator")
    /\ effects' = <<Render>>
    /\ session' = SessionOther
    /\ UNCHANGED <<current_workout, workout_timer_seconds, timer_running,
                   workout_history, showing_add_exercise, showing_import,
                   is_loading, error_message, plate_calculation, panicked>>

DismissPlateCalculator ==
    /\ ~panicked
    /\ UNCHANGED boundary
    /\ UNCHANGED database
    /\ UNCHANGED observed
    /\ UNCHANGED nav
    /\ showing_plate_calculator' = FALSE
    /\ plate_calculation' = None
    /\ lastEvent' = Ev("DismissPlateCalculator")
    /\ effects' = <<Render>>
    /\ session' = SessionOther
    /\ UNCHANGED <<current_workout, workout_timer_seconds, timer_running,
                   workout_history, showing_add_exercise, showing_import,
                   is_loading, error_message, panicked>>

(* weights and percentages the plate calculator is given *)
MaxWeightSteps == 9    \* target weights go up to this many 25 lb steps
TargetWeights == {k * 2500 : k \in (-1)..MaxWeightSteps}
BarWeights == {-4500, 0, 1500, 4400, 4500}
Percentages == {None, Some(-1), Some(0), Some(50), Some(100), Some(101)}

----------------------------------------------------------------------------
(* Derived values (models.rs, model.rs) and the view (mod.rs).  A set's    *)
(* f64 weight is written as its number of hundredths of a pound.  A        *)
(* formatted string is the sequence of its characters.                     *)

(* SetActual::volume: weight * reps when both are present, in hundredths *)
SetActualVolume(actual) ==
    IF IsSome(actual.weight) /\ IsSome(actual.reps)
    THEN Some(Unwrap(actual.weight) * Unwrap(actual.reps))
    ELSE None

(* .filter(|set| set.is_completed) *)
CountsAlways(set) == TRUE
CountsForVolume(set) == set.is_completed

(* Exercise::total_volume, in hundredths *)
RECURSIVE ExerciseTotalVolume(_)
ExerciseTotalVolume(sets) ==
    IF sets = <<>> THEN 0
    ELSE (IF CountsForVolume(Head(sets))
             /\ IsSome(SetActualVolume(Head(sets).actual))
          THEN Unwrap(SetActualVolume(Head(sets).actual))
          ELSE 0)
         + ExerciseTotalVolume(Tail(sets))

(* Workout::total_volume, in hundredths *)
RECURSIVE WorkoutTotalVolume(_)
WorkoutTotalVolume(exercises) ==
    IF exercises = <<>> THEN 0
    ELSE ExerciseTotalVolume(Head(exercises).sets)
         + WorkoutTotalVolume(Tail(exercises))

(* Workout::total_sets *)
RECURSIVE WorkoutTotalSets(_)
WorkoutTotalSets(exercises) ==
    IF exercises = <<>> THEN 0
    ELSE Len(Head(exercises).sets) + WorkoutTotalSets(Tail(exercises))

(* i32 division and remainder: the quotient is rounded toward zero *)
I32Div(a, b) == IF a >= 0 THEN a \div b ELSE (a + (b - 1)) \div b
I32Rem(a, b) == a - b * I32Div(a, b)

(* `f as i32` of a volume in hundredths: the fraction is dropped *)
VolumeAsI32(hundredths) == I32Div(hundredths, 100)

(* Model::calculate_total_volume *)
CalculateTotalVolume ==
    IF IsSome(current_workout)
    THEN VolumeAsI32(WorkoutTotalVolume(Unwrap(current_workout).exercises))
    ELSE 0

(* Model::calculate_total_sets *)
CalculateTotalSets ==
    IF IsSome(current_workout)
    THEN WorkoutTotalSets(Unwrap(current_workout).exercises)
    ELSE 0

(* the decimal digits of n >= 0 *)
Digit(d) == <<"0", "1", "2", "3", "4", "5", "6", "7", "8", "9">>[d + 1]
RECURSIVE Decimal(_)
Decimal(n) ==
    IF n < 10 THEN <<Digit(n)>> ELSE Append(Decimal(n \div 10), Digit(n % 10))

(* the digits of -n for n <= 0, most significant first *)
RECURSIVE DecimalOfNegated(_)
DecimalOfNegated(n) ==
    IF n > -10 THEN <<Digit(-n)>>
    ELSE Append(DecimalOfNegated(I32Div(n, 10)), Digit(-I32Rem(n, 10)))

(* format!("{}", n) for an i32 *)
Display(n) == IF n >= 0 THEN Decimal(n) ELSE <<"-">> \o DecimalOfNegated(n)

(* format!("{:02}", n): zeros after the sign up to a width of two *)
PadNone(n) == Display(n)
Pad02(n) == IF 0 <= n /\ n < 10 THEN <<"0">> \o Display(n) ELSE Display(n)

(* Model::format_duration *)
FormatDuration(seconds) ==
    Pad02(I32Div(seconds, 60)) \o <<":">> \o Pad02(I32Rem(seconds, 60))

(* Exercise::is_completed *)
ExerciseIsCompletedVacuously(exercise) ==
    \A i \in 1..Len(exercise.sets) : exercise.sets[i].is_completed
ExerciseIsCompleted(exercise) ==
    /\ exercise.sets # <<>>
    /\ \A i \in 1..Len(exercise.sets) : exercise.sets[i].is_completed

(* Thiccc::build_workout_view, without the per-exercise view models *)
BuildWorkoutView ==
    [has_active_workout   |-> IsSome(current_workout),
     formatted_duration   |-> FormatDuration(workout_timer_seconds),
     total_volume         |-> CalculateTotalVolume,
     total_sets           |-> CalculateTotalSets,
     timer_running        |-> timer_running,
     showing_add_exercise |-> showing_add_exercise,
     showing_import       |-> showing_import]

(* App::view *)
View ==
    /\ ~panicked
    /\ UNCHANGED boundary
    /\ UNCHANGED database
    /\ view' = Some([selected_tab  |-> selected_tab,
                     workout_view  |-> BuildWorkoutView,
                     error_message |-> error_message,
                     is_loading    |-> is_loading])
    /\ UNCHANGED <<current_workout, workout_timer_seconds, timer_running,
                   workout_history, nav, showing_add_exercise, showing_import,
                   is_loading, error_message, calculator, completed, routed,
                   effects,
                   lastEvent, panicked, session>>

(* Exercise::is_completed asked of every exercise of the active workout *)
InspectExercises ==
    /\ ~panicked
    /\ UNCHANGED boundary
    /\ UNCHANGED database
    /\ IsSome(current_workout)
    /\ completed' =
           Some([i \in 1..Len(Unwrap(current_workout).exercises) |->
                    ExerciseIsCompleted(Unwrap(current_workout).exercises[i])])
    /\ UNCHANGED <<current_workout, workout_timer_seconds, timer_running,
                   workout_history, nav, showing_add_exercise, showing_import,
                   is_loading, error_message, calculator, view, routed, effects,
                   lastEvent, panicked, session>>

(* the workouts and counters the derived values are computed from *)
MaxViewSets == 3      \* sets the two exercises of a viewed workout hold
MaxViewSeconds == 125 \* every counter from zero to this is formatted

ViewActuals ==
    {SetActualNew(weight, reps) :
        weight \in {None, Some(250)}, reps \in {None, Some(3)}}

(* n sets of one exercise, the k-th with the (first + k)-th identifier *)
ViewSets(exercise_id, workout_id, first, n) ==
    {[k \in 1..n |->
        [ExerciseSetNew(UuidPool[first + k], exercise_id, workout_id, k - 1)
            EXCEPT !.actual = f[k][1], !.is_completed = f[k][2]]] :
        f \in [1..n -> ViewActuals \X BOOLEAN]}

(* a workout of two exercises with the given sets *)
ViewWorkout(first, second) ==
    [WorkoutNew(UuidPool[1]) EXCEPT !.exercises =
        <<[ExerciseFromGlobal(UuidPool[2], UuidPool[1]) EXCEPT !.sets = first],
          [ExerciseFromGlobal(UuidPool[3], UuidPool[1]) EXCEPT !.sets = second]>>]

ViewSeconds == (0..MaxViewSeconds) \cup {323, 3661, 5999, 6000, I32Max, I32Min}

InitView ==
    /\ \/ /\ \E n \in 0..MaxViewSets : \E k \in 0..n :
                \E first \in ViewSets(UuidPool[2], UuidPool[1], 3, k),
                   second \in ViewSets(UuidPool[3], UuidPool[1], 3 + k, n - k) :
                    current_workout = Some(ViewWorkout(first, second))
          /\ workout_timer_seconds = 0
       \/ /\ current_workout \in {None, Some(WorkoutNew(UuidPool[1]))}
          /\ workout_timer_seconds \in ViewSeconds
    /\ timer_running = FALSE
    /\ workout_history = <<>>
    /\ history_detail_view = None
    /\ selected_tab = "Workout"
    /\ navigation_stack = <<>>
    /\ showing_add_exercise = FALSE
    /\ showing_import = FALSE
    /\ is_loading = FALSE
    /\ error_message = None
    /\ showing_plate_calculator = FALSE
    /\ plate_calculation = None
    /\ view = None
    /\ completed = None
    /\ routed = None
    /\ db = NoTables
    /\ tx = None
    /\ saving = None
    /\ save_result = None
    /\ loaded = None
    /\ saved = {}
    /\ thread_pc = [t \in Threads |-> "idle"]
    /\ core_lock = None
    /\ pasted = MalformedJson
    /\ effects = <<>>
    /\ lastEvent = Ev("None")
    /\ panicked = FALSE
    /\ session = SessionIdle

----------------------------------------------------------------------------
(* The dispatcher (update/mod.rs handle_event) and the outer match of each *)
(* feature module's handle_event                                           *)

(* the variants of Event (events.rs) *)
EventVariants ==
    {"StartWorkout", "FinishWorkout", "DiscardWorkout", "UpdateWorkoutName",
     "UpdateWorkoutNotes",
     "AddExercise", "DeleteExercise", "MoveExercise", "ShowAddExerciseView",
     "DismissAddExerciseView",
     "AddSet", "DeleteSet", "UpdateSetActual", "ToggleSetCompleted",
     "TimerTick", "StartTimer", "StopTimer", "ToggleTimer", "ShowStopwatch",
     "DismissStopwatch", "ShowRestTimer", "DismissRestTimer",
     "LoadHistory", "ViewHistoryItem", "NavigateBack", "ChangeTab",
     "ImportWorkout", "ShowImportView", "DismissImportView",
     "LoadWorkoutTemplate",
     "CalculatePlates", "ClearPlateCalculation", "ShowPlateCalculator",
     "DismissPlateCalculator",
     "Initialize",
     "DatabaseResponse", "StorageResponse", "TimerResponse", "Error"}

(* the feature modules *)
Modules ==
    {"app_lifecycle", "workout", "exercise", "sets", "timer", "history",
     "import_export", "plate_calculator", "capabilities"}

(* the variants for which a module's handle_event has an arm of its own;   *)
(* every other variant falls to its `_ => unreachable!(...)` arm           *)
Arms(module) ==
    CASE module = "app_lifecycle" -> {"Initialize"}
      [] module = "workout" ->
            {"StartWorkout", "FinishWorkout", "DiscardWorkout",
             "UpdateWorkoutName", "UpdateWorkoutNotes"}
      [] module = "exercise" ->
            {"AddExercise", "DeleteExercise", "MoveExercise",
             "ShowAddExerciseView", "DismissAddExerciseView"}
      [] module = "sets" ->
            {"AddSet", "DeleteSet", "UpdateSetActual", "ToggleSetCompleted"}
      [] module = "timer" ->
            {"TimerTick", "StartTimer", "StopTimer", "ToggleTimer",
             "ShowStopwatch", "DismissStopwatch", "ShowRestTimer",
             "DismissRestTimer"}
      [] module = "history" ->
            {"LoadHistory", "ViewHistoryItem", "NavigateBack", "ChangeTab"}
      [] module = "import_export" ->
            {"ImportWorkout", "ShowImportView", "DismissImportView",
             "LoadWorkoutTemplate"}
      [] module = "plate_calculator" ->
            {"CalculatePlates", "ClearPlateCalculation",
             "ShowPlateCalculator", "DismissPlateCalculator"}
      [] module = "capabilities" ->
            {"DatabaseResponse", "StorageResponse", "TimerResponse", "Error"}

(* the match of update::handle_event: the module an event is handed to *)
RouteTemplateToWorkout(variant) ==
    IF variant = "LoadWorkoutTemplate" THEN "workout"
    ELSE CHOOSE module \in Modules : variant \in Arms(module)
Route(variant) ==
    CASE variant = "Initialize" -> "app_lifecycle"
      [] variant \in {"StartWorkout", "FinishWorkout", "DiscardWorkout",
                      "UpdateWorkoutName", "UpdateWorkoutNotes"} -> "workout"
      [] variant \in {"AddExercise", "DeleteExercise", "MoveExercise",
                      "ShowAddExerciseView", "DismissAddExerciseView"} ->
            "exercise"
      [] variant \in {"AddSet", "DeleteSet", "UpdateSetActual",
                      "ToggleSetCompleted"} -> "sets"
      [] variant \in {"TimerTick", "StartTimer", "StopTimer", "ToggleTimer",
                      "ShowStopwatch", "DismissStopwatch", "ShowRestTimer",
                      "DismissRestTimer"} -> "timer"
      [] variant \in {"LoadHistory", "ViewHistoryItem", "NavigateBack",
                      "ChangeTab"} -> "history"
      [] variant \in {"ImportWorkout", "ShowImportView", "DismissImportView",
                      "LoadWorkoutTemplate"} -> "import_export"
      [] variant \in {"CalculatePlates", "ClearPlateCalculation",
                      "ShowPlateCalculator", "DismissPlateCalculator"} ->
            "plate_calculator"
      [] variant \in {"DatabaseResponse", "StorageResponse", "TimerResponse",
                      "Error"} -> "capabilities"

(* the arm of the module's match that takes the event *)
ArmTaken(module, variant) ==
    IF variant \in Arms(module) THEN variant ELSE "unreachable"

(* the values an event of a variant may carry *)
Payloads(variant) ==
    CASE variant \in {"DeleteExercise", "AddSet", "ToggleSetCompleted",
                      "ViewHistoryItem"} ->
            {UuidPool[i] : i \in 1..MaxIds} \cup {ExtUuid, BadId}
      [] variant = "DeleteSet" ->
            ({UuidPool[i] : i \in 1..MaxIds} \cup {ExtUuid, BadId})
               \X (0..MaxSets)
      [] variant = "UpdateSetActual" ->
            ({UuidPool[i] : i \in 1..MaxIds} \cup {ExtUuid, BadId})
               \X SetActuals
      [] variant = "MoveExercise" -> (0..MaxExercises) \X (0..MaxExercises)
      [] variant = "ShowRestTimer" -> {-1, 0, 60, 90}
      [] variant = "ChangeTab" -> Tabs
      [] variant \in {"UpdateWorkoutName", "UpdateWorkoutNotes"} ->
            {"", "Leg day"}
      [] variant = "DatabaseResponse" ->
            {"WorkoutSaved", "WorkoutDeleted", "HistoryLoaded",
             "WorkoutLoaded"}
      [] variant = "StorageResponse" ->
            {"CurrentWorkoutSaved", "CurrentWorkoutLoaded",
             "CurrentWorkoutDeleted", "Error"}
      [] variant = "TimerResponse" -> {"Tick", "Started", "Stopped"}
      [] variant = "Error" -> {"", "disk full"}
      [] OTHER -> {None}

(* where handle_event sends an event: the module, and the arm of the       *)
(* module's match that takes it                                            *)
RouteEvent(variant, payload) ==
    /\ ~panicked
    /\ routed' = Some([variant |-> variant, payload |-> payload,
                       module |-> Route(variant),
                       arm |-> ArmTaken(Route(variant), variant)])
    /\ UNCHANGED <<view, completed>>
    /\ UNCHANGED boundary
    /\ UNCHANGED database
    /\ UNCHANGED <<current_workout, workout_timer_seconds, timer_running,
                   workout_history, nav, showing_add_exercise, showing_import,
                   is_loading, error_message, calculator, effects,
                   lastEvent, panicked, session>>

----------------------------------------------------------------------------
(* The SQLite layer (database.rs).  A table is the set of its rows; `db`   *)
(* holds the committed tables, which is what a load reads, and `tx` the    *)
(* tables as the open transaction of save_workout sees them.               *)

(* the rows save_workout writes, in the order it writes them *)
RECURSIVE ExerciseRows(_)
ExerciseRows(exercises) ==
    IF exercises = <<>> THEN <<>>
    ELSE LET exercise == Head(exercises)
         IN  <<[table |-> "exercises", id |-> exercise.id,
                workoutId |-> exercise.workout_id]>>
             \o [k \in 1..Len(exercise.sets) |->
                    [table |-> "exerciseSets", id |-> exercise.sets[k].id,
                     exerciseId |-> exercise.sets[k].exercise_id,
                     workoutId |-> exercise.sets[k].workout_id,
                     setIndex |-> exercise.sets[k].set_index,
                     actual |-> exercise.sets[k].actual]]
             \o ExerciseRows(Tail(exercises))

WorkoutRows(workout) ==
    <<[table |-> "workouts", id |-> workout.id, duration |-> workout.duration,
       endTimestamp |-> workout.end_timestamp]>>
    \o ExerciseRows(workout.exercises)

(* INSERT OR REPLACE: the row with the same primary key is deleted first,  *)
(* and with it (ON DELETE CASCADE) the rows that refer to it               *)
InsertOrReplace(tables, row) ==
    LET gone == {r \in tables[row.table] : r.id = row.id}
        exercisesGone ==
            IF row.table = "exercises" THEN gone
            ELSE IF row.table = "workouts"
            THEN {e \in tables.exercises : e.workoutId = row.id}
            ELSE {}
        setsGone ==
            IF row.table = "exerciseSets" THEN gone
            ELSE {s \in tables.exerciseSets :
                     \E e \in exercisesGone : s.exerciseId = e.id}
        kept == [workouts     |-> tables.workouts \ gone,
                 exercises    |-> tables.exercises \ exercisesGone,
                 exerciseSets |-> tables.exerciseSets \ setsGone]
    IN  [kept EXCEPT ![row.table] = @ \cup {row}]

(* the rows of a query in the order of ORDER BY, `key` giving each row's   *)
(* value of the ordering column                                            *)
RECURSIVE OrderBy(_, _)
OrderBy(rows, key) ==
    IF rows = {} THEN <<>>
    ELSE LET first == CHOOSE r \in rows : \A o \in rows : key[r] <= key[o]
         IN  <<first>> \o OrderBy(rows \ {first}, key)

(* the position of a UUID in the lexicographic order of the TEXT column *)
TextOrder(id) == CHOOSE i \in 1..Len(UuidPool) : UuidPool[i] = id

(* the ExerciseSet load_sets_for_exercise builds from a row *)
SetFromRowComputed(row) ==
    [id |-> row.id, exercise_id |-> row.exerciseId,
     workout_id |-> row.workoutId, set_index |-> row.setIndex,
     is_completed |-> row.actual # SetActualDefault, actual |-> row.actual]
SetFromRow(row) ==
    [id |-> row.id, exercise_id |-> row.exerciseId,
     workout_id |-> row.workoutId, set_index |-> row.setIndex,
     is_completed |-> FALSE, actual |-> row.actual]

LoadSetsForExercise(tables, exercise_id) ==
    LET found == {s \in tables.exerciseSets : s.exerciseId = exercise_id}
        rows == OrderBy(found, [r \in found |-> r.setIndex])
    IN  [k \in 1..Len(rows) |-> SetFromRow(rows[k])]

LoadExercisesForWorkout(tables, workout_id) ==
    LET found == {e \in tables.exercises : e.workoutId = workout_id}
        rows == OrderBy(found, [r \in found |-> TextOrder(r.id)])
    IN  [k \in 1..Len(rows) |->
            [id |-> rows[k].id, workout_id |-> rows[k].workoutId,
             sets |-> LoadSetsForExercise(tables, rows[k].id)]]

(* Database::load_workout: Ok(None) or Ok(Some(workout)) *)
LoadWorkoutFrom(tables, workout_id) ==
    LET rows == {w \in tables.workouts : w.id = workout_id}
    IN  IF rows = {} THEN None
        ELSE LET row == CHOOSE w \in rows : TRUE
             IN  Some([id |-> row.id, duration |-> row.duration,
                       end_timestamp |-> row.endTimestamp,
                       exercises |-> LoadExercisesForWorkout(tables, row.id)])

(* `?` drops the open Transaction, whose drop behaviour is to roll back *)
DropCommits(committed, pending) == pending
DropRollsBack(committed, pending) == committed

(* let tx = self.conn.transaction()? *)
SaveWorkoutBegin(workout) ==
    /\ UNCHANGED core
    /\ UNCHANGED boundary
    /\ saving = None
    /\ saving' = Some([workout |-> workout, rows |-> WorkoutRows(workout)])
    /\ tx' = Some(db)
    /\ save_result' = None
    /\ UNCHANGED <<db, loaded, saved>>

(* one tx.execute(..)?: the row is written, or the statement fails and     *)
(* save_workout returns the error                                          *)
SaveWorkoutExecute ==
    /\ UNCHANGED core
    /\ UNCHANGED boundary
    /\ IsSome(saving)
    /\ Unwrap(saving).rows # <<>>
    /\ \/ /\ tx' = Some(InsertOrReplace(Unwrap(tx), Head(Unwrap(saving).rows)))
          /\ saving' = Some([Unwrap(saving) EXCEPT !.rows = Tail(@)])
          /\ UNCHANGED <<db, save_result>>
       \/ /\ db' = DropRollsBack(db, Unwrap(tx))
          /\ tx' = None
          /\ saving' = None
          /\ save_result' = Some("Err")
    /\ UNCHANGED <<loaded, saved>>

(* tx.commit()?; Ok(()) *)
SaveWorkoutCommit ==
    /\ UNCHANGED core
    /\ UNCHANGED boundary
    /\ IsSome(saving)
    /\ Unwrap(saving).rows = <<>>
    /\ \/ /\ db' = Unwrap(tx)
          /\ save_result' = Some("Ok")
          /\ saved' = saved \cup {Unwrap(saving).workout}
       \/ /\ db' = DropRollsBack(db, Unwrap(tx))
          /\ save_result' = Some("Err")
          /\ UNCHANGED saved
    /\ tx' = None
    /\ saving' = None
    /\ UNCHANGED loaded

(* Database::load_workout *)
LoadWorkout(workout_id) ==
    /\ UNCHANGED core
    /\ UNCHANGED boundary
    /\ loaded' = Some(LoadWorkoutFrom(db, workout_id))
    /\ UNCHANGED <<db, tx, saving, save_result, saved>>

(* the workouts the host saves: one with a completed and an open set, the  *)
(* same workout with one set less, and one whose exercises are not in the  *)
(* order of their identifiers                                              *)
DbSet(id, exercise_id, workout_id, set_index, actual, is_completed) ==
    [ExerciseSetNew(id, exercise_id, workout_id, set_index)
        EXCEPT !.actual = actual, !.is_completed = is_completed]

DbWorkouts ==
    { [WorkoutFinish(WorkoutNew("u01"), 5) EXCEPT !.exercises =
          <<[ExerciseFromGlobal("u02", "u01") EXCEPT !.sets =
               <<DbSet("u03", "u02", "u01", 0,
                       SetActualNew(Some(250), Some(3)), TRUE),
                 DbSet("u04", "u02", "u01", 1, SetActualDefault, FALSE)>>]>>],
      [WorkoutFinish(WorkoutNew("u01"), 5) EXCEPT !.exercises =
          <<[ExerciseFromGlobal("u02", "u01") EXCEPT !.sets =
               <<DbSet("u03", "u02", "u01", 0,
                       SetActualNew(Some(250), Some(3)), TRUE)>>]>>],
      [WorkoutFinish(WorkoutNew("u05"), 0) EXCEPT !.exercises =
          <<ExerciseFromGlobal("u07", "u05"),
            [ExerciseFromGlobal("u06", "u05") EXCEPT !.sets =
               <<DbSet("u08", "u06", "u05", 0, SetActualDefault, TRUE)>>]>>] }

----------------------------------------------------------------------------
(* The boundary entry points host threads call (lib.rs).  The UniFFI       *)
(* entry points process_event and view work on the process-wide            *)
(* CORE_STATE behind its Mutex; the C entry points rust_core_dispatch and  *)
(* rust_core_view work on the RustCore the host passes in.  `thread_pc`    *)
(* is where each host thread is, `core_lock` the thread holding the Mutex. *)

AtIdle(t) == thread_pc[t] = "idle"

(* CORE_STATE.lock(): the caller waits until no thread holds the Mutex *)
LockFree == core_lock = None

(* process_event: `let mut state = CORE_STATE.lock().unwrap()` *)
ProcessEventLock(t) ==
    /\ AtIdle(t)
    /\ LockFree
    /\ core_lock' = Some(t)
    /\ thread_pc' = [thread_pc EXCEPT ![t] = "process_event.update"]
    /\ UNCHANGED core
    /\ UNCHANGED pasted
    /\ UNCHANGED database

(* process_event: App::update returned, App::view is next *)
ProcessEventUpdate(t) ==
    /\ thread_pc[t] = "process_event.update"
    /\ thread_pc' = [thread_pc EXCEPT ![t] = "process_event.view"]
    /\ UNCHANGED core_lock
    /\ UNCHANGED core
    /\ UNCHANGED pasted
    /\ UNCHANGED database

(* process_event returns and drops the guard *)
ProcessEventReturn(t) ==
    /\ thread_pc[t] = "process_event.view"
    /\ thread_pc' = [thread_pc EXCEPT ![t] = "idle"]
    /\ core_lock' = None
    /\ UNCHANGED core
    /\ UNCHANGED pasted
    /\ UNCHANGED database

(* view: `let state = CORE_STATE.lock().unwrap()` *)
ViewLock(t) ==
    /\ AtIdle(t)
    /\ LockFree
    /\ core_lock' = Some(t)
    /\ thread_pc' = [thread_pc EXCEPT ![t] = "view.view"]
    /\ UNCHANGED core
    /\ UNCHANGED pasted
    /\ UNCHANGED database

(* view returns and drops the guard *)
ViewReturn(t) ==
    /\ thread_pc[t] = "view.view"
    /\ thread_pc' = [thread_pc EXCEPT ![t] = "idle"]
    /\ core_lock' = None
    /\ UNCHANGED core
    /\ UNCHANGED pasted
    /\ UNCHANGED database

(* rust_core_dispatch: `&mut *core`, then core.dispatch(event_str) *)
RustCoreDispatch(t) ==
    /\ AtIdle(t)
    /\ thread_pc' = [thread_pc EXCEPT ![t] = "rust_core_dispatch.update"]
    /\ UNCHANGED core_lock
    /\ UNCHANGED core
    /\ UNCHANGED pasted
    /\ UNCHANGED database

(* rust_core_dispatch: dispatch returned Ok, core.view() is next *)
RustCoreDispatchView(t) ==
    /\ thread_pc[t] = "rust_core_dispatch.update"
    /\ thread_pc' = [thread_pc EXCEPT ![t] = "rust_core_dispatch.view"]
    /\ UNCHANGED core_lock
    /\ UNCHANGED core
    /\ UNCHANGED pasted
    /\ UNCHANGED database

(* rust_core_view: `&*core`, then core.view() *)
RustCoreView(t) ==
    /\ AtIdle(t)
    /\ thread_pc' = [thread_pc EXCEPT ![t] = "rust_core_view.view"]
    /\ UNCHANGED core_lock
    /\ UNCHANGED core
    /\ UNCHANGED pasted
    /\ UNCHANGED database

(* rust_core_dispatch or rust_core_view returns the view's JSON *)
RustCoreReturn(t) ==
    /\ thread_pc[t] \in {"rust_core_dispatch.view", "rust_core_view.view"}
    /\ thread_pc' = [thread_pc EXCEPT ![t] = "idle"]
    /\ UNCHANGED core_lock
    /\ UNCHANGED core
    /\ UNCHANGED pasted
    /\ UNCHANGED database

----------------------------------------------------------------------------
(* The workout lifecycle and its timer *)
Next ==
    \/ StartWorkout
    \/ FinishWorkout
    \/ DiscardWorkout
    \/ TimerTick
    \/ TimerResponseTick
    \/ StartTimer
    \/ StopTimer
    \/ ToggleTimer
    \/ DatabaseResponseHistoryLoaded
    \/ DatabaseResponseWorkoutLoaded
    \/ StorageResponseCurrentWorkoutLoaded

Spec == Init /\ [][Next]_vars

----------------------------------------------------------------------------
(* Editing a workout the reducer built: exercises and sets *)

(* the identifier strings sent with an event: those of the exercises and   *)
(* sets of the active workout, a well-formed one and a malformed one       *)
EventIds ==
    (IF current_workout = None THEN {}
     ELSE WorkoutIds(Unwrap(current_workout)) \ {Unwrap(current_workout).id})
    \cup {ExtUuid, BadId}

NextSets ==
    \/ StartWorkout
    \/ DiscardWorkout
    \/ AddExercise
    \/ \E exercise_id \in EventIds : DeleteExercise(exercise_id)
    \/ \E exercise_id \in EventIds : AddSet(exercise_id)
    \/ \E exercise_id \in EventIds, set_index \in 0..MaxSets :
          DeleteSet(exercise_id, set_index)

SpecSets == Init /\ [][NextSets]_vars

----------------------------------------------------------------------------
(* Workouts that come from outside: import and load, and editing them *)

NextImport ==
    \/ \E json_data \in ImportPayloads : ImportWorkout(json_data)
    \/ ShowImportView
    \/ DismissImportView
    \/ DatabaseResponseWorkoutLoaded
    \/ DiscardWorkout
    \/ \E exercise_id \in EventIds : AddSet(exercise_id)
    \/ \E exercise_id \in EventIds, set_index \in 0..MaxSets :
          DeleteSet(exercise_id, set_index)

SpecImport == Init /\ [][NextImport]_vars

----------------------------------------------------------------------------
(* Editing the exercises and sets of a workout: the events that carry an   *)
(* identifier or a position                                                *)

(* identifier strings that name nothing in the model: a well-formed one    *)
(* and a malformed one                                                     *)
UnknownIds == {ExtUuid, BadId}

NextEdit ==
    \/ AddExercise
    \/ \E exercise_id \in UnknownIds : DeleteExercise(exercise_id)
    \/ \E from_index \in 0..MaxExercises, to_index \in 0..MaxExercises :
          MoveExercise(from_index, to_index)
    \/ \E exercise_id \in EventIds : AddSet(exercise_id)
    \/ \E exercise_id \in UnknownIds : DeleteSet(exercise_id, 0)
    \/ \E set_id \in EventIds, actual \in SetActuals :
          UpdateSetActual(set_id, actual)
    \/ \E set_id \in EventIds : ToggleSetCompleted(set_id)

SpecEdit == Init /\ [][NextEdit]_vars

----------------------------------------------------------------------------
(* Errors and the events that clear them *)

NextErrors ==
    \/ StartWorkout
    \/ FinishWorkout
    \/ DiscardWorkout
    \/ AddExercise
    \/ ShowAddExerciseView
    \/ DismissAddExerciseView
    \/ \E exercise_id \in EventIds : AddSet(exercise_id)
    \/ \E tab \in Tabs : ChangeTab(tab)
    \/ ErrorEvent

SpecErrors == Init /\ [][NextErrors]_vars

----------------------------------------------------------------------------
(* Tabs, navigation and the responses of the capabilities *)

NextNav ==
    \/ \E tab \in Tabs : ChangeTab(tab)
    \/ \E workout_id \in UnknownIds : ViewHistoryItem(workout_id)
    \/ NavigateBack
    \/ LoadHistory
    \/ DatabaseResponseSavedOrDeleted
    \/ DatabaseResponseHistoryLoaded
    \/ DatabaseResponseWorkoutLoaded
    \/ StorageResponseCurrentWorkoutLoaded
    \/ StorageResponseOther
    \/ TimerResponseTick
    \/ TimerResponseOther
    \/ ErrorEvent

SpecNav == Init /\ [][NextNav]_vars

----------------------------------------------------------------------------
(* The plate calculator *)
NextPlates ==
    \/ \E target_weight \in TargetWeights, bar_weight \in BarWeights,
          use_percentage \in Percentages :
            CalculatePlates(target_weight, bar_weight, use_percentage)
    \/ ClearPlateCalculation
    \/ ShowPlateCalculator
    \/ DismissPlateCalculator

SpecPlates == Init /\ [][NextPlates]_vars

----------------------------------------------------------------------------
(* The view and the derived values of a model *)
NextView ==
    \/ View
    \/ InspectExercises

SpecView == InitView /\ [][NextView]_vars

----------------------------------------------------------------------------
(* Saves and loads of the SQLite layer; a load may come between the        *)
(* statements of a save, from another connection to the same file          *)
NextDb ==
    \/ \E workout \in DbWorkouts : SaveWorkoutBegin(workout)
    \/ SaveWorkoutExecute
    \/ SaveWorkoutCommit
    \/ \E workout \in DbWorkouts : LoadWorkout(workout.id)

SpecDb == Init /\ [][NextDb]_vars

----------------------------------------------------------------------------
(* Host threads at the boundary entry points *)
NextBoundary ==
    \E t \in Threads :
        \/ ProcessEventLock(t)
        \/ ProcessEventUpdate(t)
        \/ ProcessEventReturn(t)
        \/ ViewLock(t)
        \/ ViewReturn(t)
        \/ RustCoreDispatch(t)
        \/ RustCoreDispatchView(t)
        \/ RustCoreView(t)
        \/ RustCoreReturn(t)

SpecBoundary == Init /\ [][NextBoundary]_vars

----------------------------------------------------------------------------
(* Importing the workout the import field holds *)
NextPasted ==
    \/ ImportPasted
    \/ ShowImportView
    \/ DismissImportView

SpecPasted == InitPasted /\ [][NextPasted]_vars

----------------------------------------------------------------------------
(* Moving the exercises of a workout *)
NextMove ==
    \E from_index \in 0..MaxMoveExercises, to_index \in 0..MaxMoveExercises :
        MoveExercise(from_index, to_index)

SpecMove == InitMove /\ [][NextMove]_vars

----------------------------------------------------------------------------
(* Events through the dispatcher *)
NextRoute ==
    \E variant \in EventVariants : \E payload \in Payloads(variant) :
        RouteEvent(variant, payload)

SpecRoute == Init /\ [][NextRoute]_vars

----------------------------------------------------------------------------
(* A workout the reducer builds and re-orders itself *)

(* the identifiers of the exercises of the active workout, and one that    *)
(* names nothing                                                           *)
ExerciseIds ==
    (IF current_workout = None THEN {}
     ELSE {Unwrap(current_workout).exercises[i].id :
              i \in 1..Len(Unwrap(current_workout).exercises)})
    \cup {ExtUuid}

NextBuild ==
    \/ StartWorkout
    \/ AddExercise
    \/ \E exercise_id \in ExerciseIds : AddSet(exercise_id)
    \/ \E exercise_id \in ExerciseIds, set_index \in 0..MaxSets :
          DeleteSet(exercise_id, set_index)
    \/ \E exercise_id \in ExerciseIds : DeleteExercise(exercise_id)
    \/ \E from_index \in 0..MaxExercises, to_index \in 0..MaxExercises :
          MoveExercise(from_index, to_index)

SpecBuild == Init /\ [][NextBuild]_vars

----------------------------------------------------------------------------
(* Properties of the workout lifecycle and its timer, checked under Spec *)

IsTick(e) == e.type \in {"TimerTick", "TimerResponse.Tick"}

(* C1: StartWorkout handled while a workout is active leaves the active    *)
(* workout, the elapsed-seconds counter and the timer-running flag as they *)
(* were, issues no timer or storage request, and sets error_message to the *)
(* "already in progress" text.                                             *)
C1_StartWhileActiveRejected ==
    [][(lastEvent'.type = "StartWorkout" /\ IsSome(current_workout)) =>
          /\ current_workout' = current_workout
          /\ workout_timer_seconds' = workout_timer_seconds
          /\ timer_running' = timer_running
          /\ ReqsOf(effects', "Timer") = <<>>
          /\ ReqsOf(effects', "Storage") = <<>>
          /\ error_message' = Some(WIP_MSG)]_vars

C1_Witness ==
    /\ lastEvent.type = "StartWorkout"
    /\ error_message = Some(WIP_MSG)
    /\ IsSome(current_workout)
    /\ timer_running
    /\ workout_timer_seconds > 0

(* C2: when only StartTimer, StopTimer, ToggleTimer and ticks were handled *)
(* between a successful StartWorkout and the FinishWorkout that follows    *)
(* it, the duration of the workout FinishWorkout put into history is the   *)
(* number of ticks delivered while timer_running was true.                 *)
C2_DurationIsRunningTicks ==
    session.phase = "finished" =>
        /\ workout_history # <<>>
        /\ workout_history[1].duration = Some(session.run)

C2_Witness ==
    /\ session.phase = "finished"
    /\ session.dropped
    /\ session.run = MaxTicks
    /\ workout_history[1].duration = Some(MaxTicks)

(* C6: FinishWorkout with an active workout puts that workout at the front *)
(* of workout_history, keeps the earlier entries in order behind it,       *)
(* clears current_workout, the counter, the timer flag and error_message,  *)
(* and issues exactly one database SaveWorkout, one storage                *)
(* DeleteCurrentWorkout and one timer Stop request.                        *)
C6_FinishActiveWorkout ==
    [][(lastEvent'.type = "FinishWorkout" /\ IsSome(current_workout)) =>
          /\ Len(workout_history') = Len(workout_history) + 1
          /\ workout_history'[1].id = Unwrap(current_workout).id
          /\ workout_history'[1].exercises = Unwrap(current_workout).exercises
          /\ \A i \in 1..Len(workout_history) :
                workout_history'[i + 1] = workout_history[i]
          /\ current_workout' = None
          /\ workout_timer_seconds' = 0
          /\ timer_running' = FALSE
          /\ error_message' = None
          /\ ReqsOf(effects', "Database") =
                <<DatabaseSaveWorkout(workout_history'[1])>>
          /\ ReqsOf(effects', "Storage") = <<StorageDeleteCurrentWorkout>>
          /\ ReqsOf(effects', "Timer") = <<TimerStop>>]_vars

C6_Witness ==
    /\ lastEvent.type = "FinishWorkout"
    /\ Len(workout_history) = 3
    /\ workout_history[1].end_timestamp = Some(Now)
    /\ ReqsOf(effects, "Database") # <<>>

(* C7: StartWorkout with no active workout creates a workout with a fresh  *)
(* identifier and no exercises, sets the counter to 0, the timer flag to   *)
(* true and error_message to none, and issues one timer Start request and  *)
(* one storage SaveCurrentWorkout request that carries the new workout.    *)
C7_StartCreatesWorkout ==
    [][(lastEvent'.type = "StartWorkout" /\ current_workout = None) =>
          /\ IsSome(current_workout')
          /\ Unwrap(current_workout').exercises = <<>>
          /\ Unwrap(current_workout').duration = None
          /\ IsUuid(Unwrap(current_workout').id)
          /\ Unwrap(current_workout').id \notin UsedIds
          /\ workout_timer_seconds' = 0
          /\ timer_running' = TRUE
          /\ error_message' = None
          /\ ReqsOf(effects', "Timer") = <<TimerStart>>
          /\ ReqsOf(effects', "Storage") =
                <<StorageSaveCurrentWorkout(Unwrap(current_workout'))>>
          /\ ReqsOf(effects', "Database") = <<>>]_vars

C7_Witness ==
    /\ lastEvent.type = "StartWorkout"
    /\ IsSome(current_workout)
    /\ error_message = None
    /\ workout_history # <<>>
    /\ Unwrap(current_workout).id \notin
          {workout_history[i].id : i \in 1..Len(workout_history)}

(* C8: a tick adds exactly 1 to the elapsed-seconds counter when           *)
(* timer_running is true and leaves it as it was when timer_running is     *)
(* false.                                                                  *)
C8_TickAddsOneWhileRunning ==
    [][IsTick(lastEvent') =>
          IF timer_running
          THEN /\ workout_timer_seconds < I32Max
               /\ workout_timer_seconds' = workout_timer_seconds + 1
          ELSE workout_timer_seconds' = workout_timer_seconds]_vars

(* C17: a StorageResponse CurrentWorkoutLoaded that carries a parseable    *)
(* workout makes it the active workout, sets the counter to the wall-clock *)
(* seconds since its start_timestamp, never a negative number, sets        *)
(* timer_running and issues a timer Start request; one that carries no     *)
(* workout leaves the model as it was apart from is_loading.               *)
C17_CurrentWorkoutLoaded ==
    [][lastEvent'.type = "StorageResponse.CurrentWorkoutLoaded" =>
          /\ IsSome(lastEvent'.delta) =>
                /\ current_workout' = FromJson(Unwrap(lastEvent'.workout_json))
                /\ workout_timer_seconds' >= 0
                /\ I64(0, workout_timer_seconds') =
                      Max0(Unwrap(lastEvent'.delta))
                /\ timer_running' = TRUE
                /\ ReqsOf(effects', "Timer") = <<TimerStart>>
          /\ lastEvent'.workout_json = None =>
                UNCHANGED <<current_workout, workout_timer_seconds,
                            timer_running, workout_history,
                            history_detail_view, selected_tab,
                            navigation_stack, showing_add_exercise,
                            showing_import, error_message>>]_vars

(* C20: the reducer returns normally from every event in every reachable   *)
(* model: no handler panics.                                               *)
C20_NeverPanics == ~panicked

(* C9: DiscardWorkout, in any state, clears current_workout, the counter   *)
(* and the timer flag, issues a storage DeleteCurrentWorkout and a timer   *)
(* Stop request and no database request, and leaves workout_history as it  *)
(* was.                                                                    *)
C9_DiscardWorkout ==
    [][lastEvent'.type = "DiscardWorkout" =>
          /\ current_workout' = None
          /\ workout_timer_seconds' = 0
          /\ timer_running' = FALSE
          /\ ReqsOf(effects', "Storage") = <<StorageDeleteCurrentWorkout>>
          /\ ReqsOf(effects', "Timer") = <<TimerStop>>
          /\ ReqsOf(effects', "Database") = <<>>
          /\ workout_history' = workout_history]_vars

C9_Witness ==
    /\ lastEvent.type = "DiscardWorkout"
    /\ workout_history # <<>>
    /\ current_workout = None
    /\ effects = <<StorageDeleteCurrentWorkout, TimerStop, Render>>

(* C10: FinishWorkout with no active workout leaves workout_history as it  *)
(* was, issues no database, storage or timer request, and resets the       *)
(* counter, the timer flag and error_message to 0, false and none.         *)
C10_FinishWithoutWorkout ==
    [][(lastEvent'.type = "FinishWorkout" /\ current_workout = None) =>
          /\ workout_history' = workout_history
          /\ ReqsOf(effects', "Database") = <<>>
          /\ ReqsOf(effects', "Storage") = <<>>
          /\ ReqsOf(effects', "Timer") = <<>>
          /\ current_workout' = None
          /\ workout_timer_seconds' = 0
          /\ timer_running' = FALSE
          /\ error_message' = None]_vars

C10_Witness ==
    /\ lastEvent.type = "FinishWorkout"
    /\ effects = <<Render>>
    /\ current_workout = None
    /\ workout_history # <<>>
----------------------------------------------------------------------------
(* Properties of set editing, checked under SpecSets *)

(* C3: after DeleteSet removed a set (the exercise exists and set_index is *)
(* below its number of sets), the exercise holds the other sets in their   *)
(* order and their set_index values are 0..n-1 in list order.              *)
C3_DeleteSetReindexes ==
    [][lastEvent'.type = "DeleteSet" =>
          LET i == FindExercise(current_workout, lastEvent'.exercise_id)
              k == lastEvent'.set_index
          IN  (/\ IsUuid(lastEvent'.exercise_id)
               /\ i # 0
               /\ k < Len(Unwrap(current_workout).exercises[i].sets)) =>
                 LET old == Unwrap(current_workout).exercises[i].sets
                     new == Unwrap(current_workout').exercises[i].sets
                 IN  /\ Len(new) = Len(old) - 1
                     /\ \A j \in 1..Len(new) :
                           /\ new[j].set_index = j - 1
                           /\ new[j].id =
                                 IF j <= k THEN old[j].id ELSE old[j + 1].id]_vars

C3_Witness ==
    /\ lastEvent.type = "DeleteSet"
    /\ lastEvent.set_index = 0
    /\ error_message = None
    /\ FindExercise(current_workout, lastEvent.exercise_id) # 0
    /\ LET e == Unwrap(current_workout).exercises[
                    FindExercise(current_workout, lastEvent.exercise_id)]
       IN  /\ Len(e.sets) = 1
           /\ e.sets[1].set_index = 0
           /\ e.workout_id = Unwrap(current_workout).id
           /\ IsUuid(e.id) /\ e.id # ExtUuid

(* C12: DeleteSet that addresses an exercise of the active workout with a  *)
(* set_index greater than or equal to the number of its sets removes       *)
(* nothing, leaves every set and its set_index as it was, and sets         *)
(* error_message to the "out of bounds" text.                              *)
C12_DeleteSetOutOfBounds ==
    [][lastEvent'.type = "DeleteSet" =>
          LET i == FindExercise(current_workout, lastEvent'.exercise_id)
              k == lastEvent'.set_index
          IN  (/\ IsUuid(lastEvent'.exercise_id)
               /\ i # 0
               /\ k >= Len(Unwrap(current_workout).exercises[i].sets)) =>
                 /\ current_workout' = current_workout
                 /\ error_message' =
                       Some(OutOfBoundsMsg(k,
                          Len(Unwrap(current_workout).exercises[i].sets)))]_vars

C12_Witness ==
    /\ lastEvent.type = "DeleteSet"
    /\ lastEvent.set_index = 1
    /\ error_message = Some(OutOfBoundsMsg(1, 1))
    /\ FindExercise(current_workout, lastEvent.exercise_id) # 0
    /\ Len(Unwrap(current_workout).exercises[
              FindExercise(current_workout, lastEvent.exercise_id)].sets) = 1

----------------------------------------------------------------------------
(* Properties of the events that carry an identifier or a position,       *)
(* checked under SpecEdit                                                  *)

(* C11: MoveExercise on an active workout with from_index or to_index      *)
(* greater than or equal to the number of its exercises leaves the         *)
(* exercise list exactly as it was and sets error_message to the "invalid  *)
(* position" text.                                                         *)
C11_MoveExerciseInvalidPosition ==
    [][(/\ lastEvent'.type = "MoveExercise"
        /\ IsSome(current_workout)
        /\ \/ lastEvent'.from_index >= Len(Unwrap(current_workout).exercises)
           \/ lastEvent'.to_index >= Len(Unwrap(current_workout).exercises)) =>
          /\ IsSome(current_workout')
          /\ Unwrap(current_workout').exercises =
                Unwrap(current_workout).exercises
          /\ error_message' =
                Some(InvalidPositionMsg(lastEvent'.from_index,
                                        lastEvent'.to_index,
                                        Len(Unwrap(current_workout).exercises)))
          /\ ~panicked']_vars

C11_Witness ==
    /\ lastEvent.type = "MoveExercise"
    /\ lastEvent.from_index = 0
    /\ lastEvent.to_index = 2
    /\ IsSome(current_workout)
    /\ Len(Unwrap(current_workout).exercises) = 2
    /\ error_message = Some(InvalidPositionMsg(0, 2, 2))

(* C13: DeleteSet, AddSet and DeleteExercise given an exercise_id, and     *)
(* UpdateSetActual and ToggleSetCompleted given a set_id, that is not a    *)
(* well-formed UUID set error_message to the text that names the invalid   *)
(* identifier and change nothing else in the model: no set or exercise is  *)
(* added, removed or modified.                                             *)
C13_InvalidIdRejected ==
    [][(\/ /\ lastEvent'.type \in {"DeleteSet", "AddSet", "DeleteExercise"}
           /\ ~IsUuid(lastEvent'.exercise_id)
        \/ /\ lastEvent'.type \in {"UpdateSetActual", "ToggleSetCompleted"}
           /\ ~IsUuid(lastEvent'.set_id)) =>
          /\ error_message' =
                Some(IF lastEvent'.type \in {"UpdateSetActual",
                                             "ToggleSetCompleted"}
                     THEN InvalidSetIdMsg ELSE InvalidExerciseIdMsg)
          /\ UNCHANGED <<current_workout, workout_timer_seconds,
                         timer_running, workout_history, history_detail_view,
                         selected_tab, navigation_stack, showing_add_exercise,
                         showing_import, is_loading>>]_vars

C13_Witness ==
    /\ lastEvent.type = "ToggleSetCompleted"
    /\ lastEvent.set_id = BadId
    /\ error_message = Some(InvalidSetIdMsg)
    /\ IsSome(current_workout)
    /\ \E i \in 1..Len(Unwrap(current_workout).exercises) :
          \E j \in 1..Len(Unwrap(current_workout).exercises[i].sets) :
             LET set == Unwrap(current_workout).exercises[i].sets[j]
             IN  set.is_completed /\ set.actual # SetActualDefault

----------------------------------------------------------------------------
(* Properties of errors and the events that clear them, checked under      *)
(* SpecErrors                                                              *)

(* C14: AddExercise appends exactly one new exercise, with no sets, to the *)
(* end of the active workout's exercise list, creating the workout first   *)
(* if none is active; it leaves the exercises the workout had and their    *)
(* order as they were, closes the add-exercise view and clears             *)
(* error_message.                                                          *)
C14_AddExerciseAppends ==
    [][lastEvent'.type = "AddExercise" =>
          /\ IsSome(current_workout')
          /\ LET old == IF IsSome(current_workout)
                        THEN Unwrap(current_workout).exercises ELSE <<>>
                 new == Unwrap(current_workout').exercises
             IN  /\ Len(new) = Len(old) + 1
                 /\ SubSeq(new, 1, Len(old)) = old
                 /\ new[Len(new)].sets = <<>>
                 /\ new[Len(new)].id \notin UsedIds
                 /\ new[Len(new)].workout_id = Unwrap(current_workout').id
          /\ IF IsSome(current_workout)
             THEN Unwrap(current_workout').id = Unwrap(current_workout).id
             ELSE Unwrap(current_workout').id \notin UsedIds
          /\ showing_add_exercise' = FALSE
          /\ error_message' = None]_vars

C14_Witness ==
    /\ lastEvent.type = "AddExercise"
    /\ IsSome(current_workout)
    /\ Len(Unwrap(current_workout).exercises) = 2
    /\ Len(Unwrap(current_workout).exercises[1].sets) = 1
    /\ Unwrap(current_workout).exercises[2].sets = <<>>
    /\ ~showing_add_exercise
    /\ error_message = None

(* C19: whatever error_message was before, it is none after StartWorkout   *)
(* with no workout active, FinishWorkout, DiscardWorkout, AddExercise,     *)
(* ChangeTab, and AddSet that names an exercise of the active workout.     *)
C19_ErrorClearedOnSuccess ==
    [][(\/ lastEvent'.type = "StartWorkout" /\ current_workout = None
        \/ lastEvent'.type \in {"FinishWorkout", "DiscardWorkout",
                                 "AddExercise", "ChangeTab"}
        \/ /\ lastEvent'.type = "AddSet"
           /\ IsUuid(lastEvent'.exercise_id)
           /\ FindExercise(current_workout, lastEvent'.exercise_id) # 0) =>
          error_message' = None]_vars

C19_Witness ==
    /\ lastEvent.type = "AddSet"
    /\ FindExercise(current_workout, lastEvent.exercise_id) # 0
    /\ Len(Unwrap(current_workout).exercises[
              FindExercise(current_workout, lastEvent.exercise_id)].sets) = 1
    /\ error_message = None
    /\ selected_tab = "History"
    /\ workout_history # <<>>

----------------------------------------------------------------------------
(* Properties of tabs, navigation and capability responses, checked under  *)
(* SpecNav                                                                 *)

(* C15: after any ChangeTab, whichever tab it names, the navigation stack  *)
(* is empty, error_message is none and selected_tab is the requested tab.  *)
C15_ChangeTabClears ==
    [][lastEvent'.type = "ChangeTab" =>
          /\ navigation_stack' = <<>>
          /\ error_message' = None
          /\ selected_tab' = lastEvent'.tab]_vars

C15_Witness ==
    /\ lastEvent = [type |-> "ChangeTab", tab |-> "History"]
    /\ selected_tab = "History"
    /\ navigation_stack = <<>>
    /\ error_message = None
    /\ is_loading
    /\ workout_history # <<>>

IsCapabilityResponse(e) ==
    e.type \in {"DatabaseResponse.WorkoutSavedOrDeleted",
                "DatabaseResponse.HistoryLoaded",
                "DatabaseResponse.WorkoutLoaded",
                "StorageResponse.CurrentWorkoutLoaded",
                "StorageResponse.CurrentWorkoutSavedOrDeleted",
                "StorageResponse.Error",
                "TimerResponse.Tick",
                "TimerResponse.StartedOrStopped"}

(* C16: after a DatabaseResponse, a StorageResponse or a TimerResponse was *)
(* handled, is_loading is false.                                           *)
C16_ResponsesClearLoading ==
    [][IsCapabilityResponse(lastEvent') => is_loading' = FALSE]_vars

(* C18: when the History tab is selected and error_message is none, a      *)
(* DatabaseResponse WorkoutLoaded that carries a workout stores it in      *)
(* history_detail_view and leaves error_message none.                      *)
C18_WorkoutLoadedIntoHistoryDetail ==
    [][(/\ lastEvent'.type = "DatabaseResponse.WorkoutLoaded"
        /\ IsSome(lastEvent'.workout)
        /\ selected_tab = "History"
        /\ error_message = None) =>
          /\ history_detail_view' = lastEvent'.workout
          /\ error_message' = None]_vars

----------------------------------------------------------------------------
(* Properties of import and load, checked under SpecImport *)

(* C4: in every reachable state every exercise of the active workout has   *)
(* sets whose set_index values are 0..n-1 in list order.                   *)
C4_SetIndexDense ==
    IsSome(current_workout) => DenseSetIndex(Unwrap(current_workout))

(* C5: an ImportWorkout whose payload does not parse, or parses and holds  *)
(* a malformed identifier anywhere in the tree, leaves current_workout and *)
(* the import-view flag as they were and sets error_message.               *)
C5_BadImportRejected ==
    [][(/\ lastEvent'.type = "ImportWorkout"
        /\ (~lastEvent'.parses \/ lastEvent'.malformed_ids)) =>
          /\ current_workout' = current_workout
          /\ showing_import' = showing_import
          /\ IsSome(error_message')]_vars

C5_Witness ==
    /\ lastEvent.type = "ImportWorkout"
    /\ lastEvent.malformed_ids
    /\ IsSome(current_workout)
    /\ showing_import
    /\ IsSome(error_message)
    /\ Unwrap(error_message).text = "Invalid workout data: {}"
    /\ Unwrap(error_message).args =
          Some(Msg("Invalid workout_id in set at exercise {} set {}: {}",
                   <<0, 1>>))

----------------------------------------------------------------------------
(* Properties of the plate calculator, checked under SpecPlates *)

(* C21: CalculatePlates is rejected, with plate_calculation set to none    *)
(* and the message of the first failing check, when the target weight is   *)
(* <= 0, else when the bar weight is <= 0, else when a supplied percentage *)
(* is below 0 or above 100, else when the weight per side is below 0; a    *)
(* percentage of exactly 0 or 100 is never rejected by the percentage      *)
(* check.                                                                  *)
C21_BelowBar(e) ==
    IF IsSome(e.use_percentage)
    THEN e.target_weight * Unwrap(e.use_percentage) < e.bar_weight * 100
    ELSE e.target_weight < e.bar_weight

C21_Rejected(message) ==
    /\ plate_calculation' = None
    /\ error_message' = Some(message)

C21_CalculatePlatesRejected ==
    [][lastEvent'.type = "CalculatePlates" =>
        LET e == lastEvent'
            positive == e.target_weight > 0 /\ e.bar_weight > 0
            outside == /\ IsSome(e.use_percentage)
                       /\ \/ Unwrap(e.use_percentage) < 0
                          \/ Unwrap(e.use_percentage) > 100
        IN  /\ e.target_weight <= 0 => C21_Rejected(TargetNotPositiveMsg)
            /\ e.target_weight > 0 /\ e.bar_weight <= 0
                   => C21_Rejected(BarNotPositiveMsg)
            /\ positive /\ outside
                   => C21_Rejected(PercentageMsg(Unwrap(e.use_percentage)))
            /\ positive /\ ~outside /\ C21_BelowBar(e)
                   => C21_Rejected(BelowBarMsg)
            /\ positive /\ e.use_percentage \in {Some(0), Some(100)}
                   => IF C21_BelowBar(e)
                      THEN C21_Rejected(BelowBarMsg)
                      ELSE plate_calculation' # None]_vars

(* a percentage of 101 was rejected with its own message *)
C21_Witness ==
    /\ lastEvent.type = "CalculatePlates"
    /\ lastEvent.target_weight > 0
    /\ lastEvent.bar_weight > 0
    /\ lastEvent.use_percentage = Some(101)
    /\ error_message = Some(PercentageMsg(101))
    /\ plate_calculation = None

(* C22: a stored plate list is the greedy fill of the weight per side over *)
(* the plates 45, 35, 25, 10, 5 and 2.5: it is in non-increasing order,    *)
(* each plate is the largest one p with remaining >= p - 0.01 at the       *)
(* moment it is added, and the final residual r has -0.01 <= r < 2.49; a   *)
(* target of 225 with a bar of 45 gives exactly two 45 plates.             *)
RECURSIVE C22_Sum(_)
C22_Sum(seq) == IF seq = <<>> THEN 0 ELSE Head(seq) + C22_Sum(Tail(seq))

C22_Sizes == {4500, 3500, 2500, 1000, 500, 250}

----------------------------------------------------------------------------
(* Properties of the derived values, checked under SpecView *)

(* C24: for a counter s >= 0 the formatted duration is s div 60 written    *)
(* with at least two digits, a colon, and s mod 60 written with exactly    *)
(* two digits; minutes are not capped (0 gives 00:00, 59 gives 00:59, 60   *)
(* gives 01:00, 323 gives 05:23, 3661 gives 61:01).                        *)
C24_DigitChars == <<"0", "1", "2", "3", "4", "5", "6", "7", "8", "9">>

C24_IsDigit(c) == \E d \in 1..10 : C24_DigitChars[d] = c

RECURSIVE C24_Value(_)
C24_Value(chars) ==
    IF chars = <<>> THEN 0
    ELSE 10 * C24_Value(SubSeq(chars, 1, Len(chars) - 1))
         + ((CHOOSE d \in 1..10 : C24_DigitChars[d] = chars[Len(chars)]) - 1)

C24_FormatDuration ==
    (IsSome(view) /\ workout_timer_seconds >= 0) =>
        LET f == Unwrap(view).workout_view.formatted_duration
            s == workout_timer_seconds
            colons == {i \in 1..Len(f) : f[i] = ":"}
            colon == CHOOSE i \in colons : TRUE
            minutes == SubSeq(f, 1, colon - 1)
            seconds == SubSeq(f, colon + 1, Len(f))
        IN  /\ Cardinality(colons) = 1
            /\ \A i \in 1..Len(f) : i \notin colons => C24_IsDigit(f[i])
            /\ Len(seconds) = 2
            /\ Len(minutes) >= 2
            /\ Len(minutes) > 2 => minutes[1] # "0"
            /\ C24_Value(seconds) < 60
            /\ C24_Value(minutes) = (s - C24_Value(seconds)) \div 60
            /\ 60 * C24_Value(minutes) + C24_Value(seconds) = s
            /\ s = 0 => f = <<"0", "0", ":", "0", "0">>
            /\ s = 59 => f = <<"0", "0", ":", "5", "9">>
            /\ s = 60 => f = <<"0", "1", ":", "0", "0">>
            /\ s = 323 => f = <<"0", "5", ":", "2", "3">>
            /\ s = 3661 => f = <<"6", "1", ":", "0", "1">>

(* a counter of 3661 seconds was formatted as 61:01 *)
C24_Witness ==
    /\ IsSome(view)
    /\ workout_timer_seconds = 3661
    /\ Unwrap(view).workout_view.formatted_duration
           = <<"6", "1", ":", "0", "1">>

C23_Sets ==
    IF IsSome(current_workout)
    THEN LET exercises == Unwrap(current_workout).exercises
         IN  {<<i, j>> \in (1..Len(exercises)) \X (1..MaxViewSets) :
                  j <= Len(exercises[i].sets)}
    ELSE {}

C23_Set(at) == Unwrap(current_workout).exercises[at[1]].sets[at[2]]

C23_HasBoth(at) ==
    IsSome(C23_Set(at).actual.weight) /\ IsSome(C23_Set(at).actual.reps)

(* weight x reps of the sets at the given places, in hundredths *)
RECURSIVE C23_Sum(_)
C23_Sum(places) ==
    IF places = {} THEN 0
    ELSE LET at == CHOOSE x \in places : TRUE
         IN  Unwrap(C23_Set(at).actual.weight) * Unwrap(C23_Set(at).actual.reps)
             + C23_Sum(places \ {at})

C23_VolumeOfCompletedSets ==
    IsSome(view) =>
        LET counted == {at \in C23_Sets :
                           C23_HasBoth(at) /\ C23_Set(at).is_completed}
            shown == Unwrap(view).workout_view.total_volume
        IN  /\ 100 * shown <= C23_Sum(counted)
            /\ C23_Sum(counted) < 100 * (shown + 1)

(* the claim as stated: sets count whether or not they are completed, and  *)
(* the figure shown is the sum itself                                      *)
C23_VolumeOfAllSets ==
    IsSome(view) =>
        100 * Unwrap(view).workout_view.total_volume
            = C23_Sum({at \in C23_Sets : C23_HasBoth(at)})

(* one completed set of 2.5 x 3 and one set of 2.5 x 3 that is not         *)
(* completed are shown as a volume of 7                                    *)
C23_Witness ==
    /\ IsSome(view)
    /\ Unwrap(view).workout_view.total_volume = 7
    /\ \E at \in C23_Sets : C23_HasBoth(at) /\ C23_Set(at).is_completed
    /\ \E at \in C23_Sets : C23_HasBoth(at) /\ ~C23_Set(at).is_completed

----------------------------------------------------------------------------
(* Properties of externally loaded workouts, checked under Spec *)

(* C26: the active workout always has duration and end_timestamp unset,    *)
(* every workout FinishWorkout places in history has both set, and         *)
(* FinishWorkout never finishes a workout that was finished before.        *)
C26_Unfinished(workout) ==
    workout.duration = None /\ workout.end_timestamp = None

C26_FinishedExactlyOnce ==
    /\ [](IsSome(current_workout) => C26_Unfinished(Unwrap(current_workout)))
    /\ [][(lastEvent'.type = "FinishWorkout" /\ IsSome(current_workout)) =>
            /\ C26_Unfinished(Unwrap(current_workout))
            /\ IsSome(workout_history'[1].duration)
            /\ IsSome(workout_history'[1].end_timestamp)]_vars

----------------------------------------------------------------------------
(* Properties of the SQLite layer, checked under SpecDb *)

(* C27: a save is all or nothing: while a save is in progress and when it  *)
(* fails the committed tables do not change, and every workout a load      *)
(* returns is, row for row, a workout whose save committed, never a        *)
(* workout with only some of its exercises or sets.                        *)
C27_Rows(workout) ==
    [id |-> workout.id, duration |-> workout.duration,
     end_timestamp |-> workout.end_timestamp,
     count |-> Len(workout.exercises),
     exercises |->
        {[id |-> workout.exercises[i].id,
          workout_id |-> workout.exercises[i].workout_id,
          sets |-> [k \in 1..Len(workout.exercises[i].sets) |->
                       [workout.exercises[i].sets[k]
                           EXCEPT !.is_completed = FALSE]]] :
            i \in 1..Len(workout.exercises)}]

C27_SaveAllOrNothing ==
    /\ []((IsSome(loaded) /\ IsSome(Unwrap(loaded))) =>
            \E workout \in saved :
                C27_Rows(Unwrap(Unwrap(loaded))) = C27_Rows(workout))
    /\ [][/\ IsSome(saving') => db' = db
          /\ (IsSome(saving) /\ save_result' = Some("Err")) => db' = db]_vars

(* a save failed while the workout saved before it is still there whole *)
C27_Witness ==
    /\ save_result = Some("Err")
    /\ saved # {}
    /\ db.exerciseSets # {}
    /\ IsSome(loaded)
    /\ IsSome(Unwrap(loaded))
    /\ \E workout \in saved :
           C27_Rows(Unwrap(Unwrap(loaded))) = C27_Rows(workout)

(* C28: every set a load returns has is_completed false, whatever the flag *)
(* was when the workout was saved.                                         *)
C28_LoadedSetsNotCompleted ==
    (IsSome(loaded) /\ IsSome(Unwrap(loaded))) =>
        LET exercises == Unwrap(Unwrap(loaded)).exercises
        IN  \A i \in 1..Len(exercises) :
                \A k \in 1..Len(exercises[i].sets) :
                    exercises[i].sets[k].is_completed = FALSE

(* a set that was saved as completed was loaded *)
C28_Witness ==
    /\ IsSome(loaded)
    /\ IsSome(Unwrap(loaded))
    /\ \E workout \in saved :
           /\ workout.id = Unwrap(Unwrap(loaded)).id
           /\ \E i \in 1..Len(workout.exercises) :
                  \E k \in 1..Len(workout.exercises[i].sets) :
                      /\ workout.exercises[i].sets[k].is_completed
                      /\ \E j \in 1..Len(Unwrap(Unwrap(loaded)).exercises) :
                             \E m \in 1..Len(Unwrap(Unwrap(loaded)).exercises[j].sets) :
                                 Unwrap(Unwrap(loaded)).exercises[j].sets[m].id
                                     = workout.exercises[i].sets[k].id

----------------------------------------------------------------------------
(* Properties of the boundary entry points, checked under SpecBoundary *)

(* C29: of the threads that call the entry points on one core instance,    *)
(* at most one is inside the reducer or the view projection at any time:   *)
(* one among the callers of process_event and view, which share            *)
(* CORE_STATE, and one among the callers of rust_core_dispatch and         *)
(* rust_core_view, which share the host's RustCore.                        *)
C29_InsideCoreState ==
    {t \in Threads : thread_pc[t] \in
        {"process_event.update", "process_event.view", "view.view"}}

C29_InsideRustCore ==
    {t \in Threads : thread_pc[t] \in
        {"rust_core_dispatch.update", "rust_core_dispatch.view",
         "rust_core_view.view"}}

C29_OneThreadInside ==
    /\ Cardinality(C29_InsideCoreState) <= 1
    /\ Cardinality(C29_InsideRustCore) <= 1

----------------------------------------------------------------------------
(* Properties of the identifiers of loaded data, checked under Spec *)

(* C30: every identifier and every back-reference in current_workout and   *)
(* in workout_history is a well-formed UUID in every reachable state,      *)
(* whichever way the workout came into the model.                          *)
C30_WellFormed(workout) ==
    /\ IsUuid(workout.id)
    /\ \A i \in 1..Len(workout.exercises) :
           /\ IsUuid(workout.exercises[i].id)
           /\ IsUuid(workout.exercises[i].workout_id)
           /\ \A j \in 1..Len(workout.exercises[i].sets) :
                  /\ IsUuid(workout.exercises[i].sets[j].id)
                  /\ IsUuid(workout.exercises[i].sets[j].exercise_id)
                  /\ IsUuid(workout.exercises[i].sets[j].workout_id)

C30_IdentifiersWellFormed ==
    /\ IsSome(current_workout) => C30_WellFormed(Unwrap(current_workout))
    /\ \A i \in 1..Len(workout_history) : C30_WellFormed(workout_history[i])

----------------------------------------------------------------------------
(* Properties of the requests a Command carries, checked under Spec *)

(* the capabilities whose requests are answered by an event *)
C31_Kinds == {"Storage", "Database", "Timer"}

(* C31: the reducer never has more than one request of the same capability *)
(* kind (storage, database, timer) awaiting its response at the same time. *)
(* Responses arrive as events, so when the next event is not a response,   *)
(* every request of the previous Command is still awaiting its response    *)
(* when the requests of the new Command are issued: the two Commands       *)
(* together carry at most one request of each kind.                        *)
C31_OneRequestAwaiting ==
    [][~IsCapabilityResponse(lastEvent')
          => \A cap \in C31_Kinds :
                Len(ReqsOf(effects, cap)) + Len(ReqsOf(effects', cap)) <= 1
      ]_vars

----------------------------------------------------------------------------
(* Properties of the import of a pasted workout, checked under SpecPasted *)

(* the identifier fields of a workout, by place: <<0, 0, 1>> the workout   *)
(* id; <<i, 0, 1>> and <<i, 0, 2>> id and workout_id of the i-th exercise; *)
(* <<i, j, 1>>, <<i, j, 2>>, <<i, j, 3>> id, exercise_id and workout_id of *)
(* its j-th set                                                            *)
C32_Places(w) ==
    {<<0, 0, 1>>}
    \cup {<<i, 0, f>> : i \in 1..Len(w.exercises), f \in 1..2}
    \cup UNION {{<<i, j, f>> : j \in 1..Len(w.exercises[i].sets), f \in 1..3} :
                  i \in 1..Len(w.exercises)}

C32_IdAt(w, p) ==
    IF p[1] = 0 THEN w.id
    ELSE IF p[2] = 0
         THEN IF p[3] = 1 THEN w.exercises[p[1]].id
              ELSE w.exercises[p[1]].workout_id
         ELSE LET set == w.exercises[p[1]].sets[p[2]]
              IN  IF p[3] = 1 THEN set.id
                  ELSE IF p[3] = 2 THEN set.exercise_id
                  ELSE set.workout_id

C32_Offenders(w) == {p \in C32_Places(w) : ~IsUuid(C32_IdAt(w, p))}

(* depth-first order: the workout, then each exercise with its own fields  *)
(* before its sets, lists in list order, fields in the order named         *)
C32_Before(p, q) ==
    \/ p[1] < q[1]
    \/ p[1] = q[1] /\ p[2] < q[2]
    \/ p[1] = q[1] /\ p[2] = q[2] /\ p[3] <= q[3]

(* the error that names the identifier at a place, with its indices *)
C32_Names(p) ==
    IF p[1] = 0 THEN Msg("Invalid workout ID: {}", <<>>)
    ELSE IF p[2] = 0
         THEN IF p[3] = 1
              THEN Msg("Invalid exercise ID at index {}: {}", <<p[1] - 1>>)
              ELSE Msg("Invalid workout_id in exercise at index {}: {}",
                       <<p[1] - 1>>)
         ELSE IF p[3] = 1
              THEN Msg("Invalid set ID at exercise {} set {}: {}",
                       <<p[1] - 1, p[2] - 1>>)
              ELSE IF p[3] = 2
              THEN Msg("Invalid exercise_id in set at exercise {} set {}: {}",
                       <<p[1] - 1, p[2] - 1>>)
              ELSE Msg("Invalid workout_id in set at exercise {} set {}: {}",
                       <<p[1] - 1, p[2] - 1>>)

(* C32: when an imported workout contains malformed identifiers, the error *)
(* names the first one in depth-first order (the workout id; then for each *)
(* exercise in list order its id, its workout_id, and for each of its sets *)
(* in list order the set's id, exercise_id, workout_id) and carries the    *)
(* exercise index and, for a set, the set index of that first offender.    *)
C32_FirstOffenderNamed ==
    (lastEvent.type = "ImportWorkout" /\ lastEvent.parses)
    => LET offenders == C32_Offenders(Unwrap(FromJson(pasted)))
       IN  offenders # {}
           => \E p \in offenders :
                 /\ \A q \in offenders : C32_Before(p, q)
                 /\ error_message =
                       Some(Msg("Invalid workout data: {}", Some(C32_Names(p))))

(* an import was handled whose workout has a malformed workout_id in the   *)
(* second set of the first exercise and a malformed id of the second       *)
(* exercise, and the error names the set                                   *)
C32_Witness ==
    /\ lastEvent.type = "ImportWorkout"
    /\ lastEvent.parses
    /\ C32_Offenders(Unwrap(FromJson(pasted))) = {<<1, 2, 3>>, <<2, 0, 1>>}
    /\ error_message =
          Some(Msg("Invalid workout data: {}",
                   Some(Msg("Invalid workout_id in set at exercise {} set {}: {}",
                            <<0, 1>>))))

----------------------------------------------------------------------------
(* Properties of MoveExercise, checked under SpecMove *)

(* where an exercise is in a list of distinct exercises *)
C33_IndexOf(exercises, exercise) ==
    CHOOSE k \in 1..Len(exercises) : exercises[k] = exercise

(* C33: MoveExercise with both indices below the exercise count n yields a *)
(* list of the same n exercises in which the exercise formerly at          *)
(* from_index is at to_index and all other exercises keep their relative   *)
(* order; with from_index equal to to_index nothing changes.               *)
C33_MoveExercise ==
    [][(/\ lastEvent'.type = "MoveExercise"
        /\ IsSome(current_workout)
        /\ lastEvent'.from_index < Len(Unwrap(current_workout).exercises)
        /\ lastEvent'.to_index < Len(Unwrap(current_workout).exercises)) =>
          LET before == Unwrap(current_workout).exercises
              from == lastEvent'.from_index + 1
              to == lastEvent'.to_index + 1
              others == (1..Len(before)) \ {from}
          IN  /\ IsSome(current_workout')
              /\ ~panicked'
              /\ LET after == Unwrap(current_workout').exercises
                 IN  /\ Len(after) = Len(before)
                     /\ {after[k] : k \in 1..Len(after)} =
                           {before[k] : k \in 1..Len(before)}
                     /\ after[to] = before[from]
                     /\ \A i \in others, j \in others :
                           i < j => C33_IndexOf(after, before[i])
                                       < C33_IndexOf(after, before[j])
              /\ from = to => current_workout' = current_workout]_vars

(* the first of four exercises was moved to the third place *)
C33_Witness ==
    /\ lastEvent.type = "MoveExercise"
    /\ lastEvent.from_index = 0
    /\ lastEvent.to_index = 2
    /\ ~panicked
    /\ IsSome(current_workout)
    /\ LET after == Unwrap(current_workout).exercises
       IN  /\ Len(after) = 4
           /\ after[1].id = UuidPool[3]
           /\ after[2].id = UuidPool[4]
           /\ after[3].id = UuidPool[2]
           /\ after[4].id = UuidPool[5]

----------------------------------------------------------------------------
(* Properties of the loading flag, checked under SpecNav *)

(* the events that end a database load *)
C34_EndsLoad(e) ==
    e.type \in {"DatabaseResponse.WorkoutSavedOrDeleted",
                "DatabaseResponse.HistoryLoaded",
                "DatabaseResponse.WorkoutLoaded",
                "Error"}

(* C34: is_loading is true for as long as the database load requested by   *)
(* LoadHistory is in progress.  Right after LoadHistory the load is in     *)
(* progress, and it still is after the next event unless that event is a   *)
(* DatabaseResponse or an Error: after any other event, a StorageResponse  *)
(* included, is_loading is still true.                                     *)
C34_LoadingUntilDatabaseResponse ==
    [][(lastEvent.type = "LoadHistory" /\ ~C34_EndsLoad(lastEvent'))
          => is_loading']_vars

----------------------------------------------------------------------------
(* Properties of the order of loaded lists, checked under SpecDb *)

(* what a workout holds, without the order of its lists *)
C35_Content(workout) ==
    [id |-> workout.id,
     exercises |->
        {[id |-> workout.exercises[i].id,
          sets |-> {[workout.exercises[i].sets[k]
                        EXCEPT !.is_completed = FALSE] :
                      k \in 1..Len(workout.exercises[i].sets)}] :
            i \in 1..Len(workout.exercises)}]

(* the identifiers of a list of exercises or sets, in list order *)
C35_Ids(list) == [k \in 1..Len(list) |-> list[k].id]

(* C35: saving a workout and then loading it by id returns the same        *)
(* exercises in the list order they had when saved, and within each        *)
(* exercise the same sets in the same list order.                          *)
C35_LoadKeepsListOrder ==
    (IsSome(loaded) /\ IsSome(Unwrap(loaded))) =>
        \A workout \in saved :
            C35_Content(workout) = C35_Content(Unwrap(Unwrap(loaded)))
            => LET found == Unwrap(Unwrap(loaded)).exercises
               IN  /\ C35_Ids(found) = C35_Ids(workout.exercises)
                   /\ \A i \in 1..Len(found) :
                         C35_Ids(found[i].sets) =
                            C35_Ids(workout.exercises[i].sets)

----------------------------------------------------------------------------
(* Properties of the dispatcher, checked under SpecRoute *)

(* C36: every event is routed by the dispatcher to exactly one feature     *)
(* handler, and that handler has an explicit arm for it: for no event      *)
(* variant does a handler reach its unreachable fallback arm.              *)
C36_RoutedToExplicitArm ==
    IsSome(routed) =>
        LET event == Unwrap(routed)
        IN  /\ event.module \in Modules
            /\ event.arm = event.variant
            /\ event.arm # "unreachable"
            /\ {module \in Modules : event.variant \in Arms(module)}
                  = {event.module}

(* a LoadWorkoutTemplate event reached the arm import_export has for it *)
C36_Witness ==
    /\ IsSome(routed)
    /\ Unwrap(routed).variant = "LoadWorkoutTemplate"
    /\ Unwrap(routed).module = "import_export"
    /\ Unwrap(routed).arm = "LoadWorkoutTemplate"

----------------------------------------------------------------------------
(* Properties of the timer flag and the host timer, checked under Spec *)

(* C37: whenever handling an event changes timer_running, the same step    *)
(* issues the matching timer request: Start when the flag becomes true,    *)
(* Stop when it becomes false.                                             *)
C37_TimerRequestFollowsFlag ==
    [][timer_running' # timer_running
          => ReqsOf(effects', "Timer") =
                (IF timer_running' THEN <<TimerStart>> ELSE <<TimerStop>>)
      ]_vars

----------------------------------------------------------------------------
(* Properties of the active workout, checked under Spec *)

(* C38: once a workout is active, current_workout becomes none only        *)
(* through FinishWorkout or DiscardWorkout; no other event, a capability   *)
(* response included, removes the active workout.                          *)
C38_OnlyFinishOrDiscardRemoves ==
    [][(IsSome(current_workout) /\ current_workout' = None)
          => lastEvent'.type \in {"FinishWorkout", "DiscardWorkout"}]_vars

----------------------------------------------------------------------------
(* Properties of events whose identifier names nothing, checked under      *)
(* SpecEdit                                                                *)

(* the fields of the Model *)
C39_Model ==
    <<current_workout, workout_timer_seconds, timer_running, workout_history,
      history_detail_view, selected_tab, navigation_stack,
      showing_add_exercise, showing_import, is_loading, error_message,
      showing_plate_calculator, plate_calculation>>

(* a well-formed UUID that no exercise of the active workout has *)
C39_NoExercise(id) ==
    /\ IsUuid(id)
    /\ IsSome(current_workout) =>
          \A i \in 1..Len(Unwrap(current_workout).exercises) :
              Unwrap(current_workout).exercises[i].id # id

(* a well-formed UUID that no set of the active workout has *)
C39_NoSet(id) ==
    /\ IsUuid(id)
    /\ IsSome(current_workout) =>
          \A i \in 1..Len(Unwrap(current_workout).exercises) :
              \A j \in 1..Len(Unwrap(current_workout).exercises[i].sets) :
                  Unwrap(current_workout).exercises[i].sets[j].id # id

(* C39: AddSet, DeleteSet and DeleteExercise given a well-formed UUID that  *)
(* no exercise of the active workout has, and UpdateSetActual and          *)
(* ToggleSetCompleted given one that no set has (or any of them while no   *)
(* workout is active), leave every field of the model as it was: no error  *)
(* is set and an error set before is not cleared.                          *)
C39_UnknownIdChangesNothing ==
    [][(\/ /\ lastEvent'.type \in {"AddSet", "DeleteSet", "DeleteExercise"}
           /\ C39_NoExercise(lastEvent'.exercise_id)
        \/ /\ lastEvent'.type \in {"UpdateSetActual", "ToggleSetCompleted"}
           /\ C39_NoSet(lastEvent'.set_id))
          => /\ C39_Model' = C39_Model
             /\ ~panicked']_vars

(* AddSet was given a well-formed identifier that no exercise of the       *)
(* active workout has, while an error was showing, and the error is still  *)
(* there                                                                   *)
C39_Witness ==
    /\ lastEvent.type = "AddSet"
    /\ lastEvent.exercise_id = ExtUuid
    /\ IsSome(current_workout)
    /\ Unwrap(current_workout).exercises # <<>>
    /\ IsSome(error_message)

----------------------------------------------------------------------------
(* Properties of the back-references of a workout, checked under SpecBuild *)

(* C40: in every state reached with StartWorkout, AddExercise, AddSet,     *)
(* DeleteSet, DeleteExercise and MoveExercise only, every exercise of the  *)
(* active workout has the workout's id as workout_id, and every set has    *)
(* its owning exercise's id as exercise_id and the workout's id as         *)
(* workout_id.                                                             *)
C40_BackReferences ==
    IsSome(current_workout) =>
        LET workout == Unwrap(current_workout)
        IN  \A i \in 1..Len(workout.exercises) :
               /\ workout.exercises[i].workout_id = workout.id
               /\ \A j \in 1..Len(workout.exercises[i].sets) :
                     /\ workout.exercises[i].sets[j].exercise_id =
                           workout.exercises[i].id
                     /\ workout.exercises[i].sets[j].workout_id = workout.id

(* the exercise added first holds a set and was moved behind the second *)
C40_Witness ==
    /\ lastEvent.type = "MoveExercise"
    /\ lastEvent.from_index = 0
    /\ lastEvent.to_index = 1
    /\ error_message = None
    /\ IsSome(current_workout)
    /\ Len(Unwrap(current_workout).exercises) = 2
    /\ Unwrap(current_workout).exercises[2].id = UuidPool[2]
    /\ Unwrap(current_workout).exercises[2].sets # <<>>

====
